---- MODULE Spec2Model ----
(***************************************************************************)
(* A model of apisprout, the OpenAPI mock server:                          *)
(*   - OpenAPIExample (example.go): the recursive example synthesizer,     *)
(*     run as a machine with an explicit call stack (SpecExample);         *)
(*   - server (apisprout.go): the initial load, the file watcher, the      *)
(*     /__reload, /__schema and request handlers sharing data, err,        *)
(*     swagger and the RefreshableRouter (Spec);                           *)
(*   - getExample / getTypedExample (apisprout.go): response selection     *)
(*     (SpecSelect);                                                       *)
(*   - handler (apisprout.go): one request from the CORS check to the      *)
(*     answer (SpecHandler);                                               *)
(*   - getTypedExample, parsePreferHeader (apisprout.go) and the number    *)
(*     rules of OpenAPIExample (example.go), each called by itself on      *)
(*     drawn arguments (SpecTyped, SpecPrefer, SpecNumber);                *)
(*   - the string rules of OpenAPIExample (SpecString) and                 *)
(*     addLocalServers (SpecLocal), called likewise.                       *)
(***************************************************************************)
EXTENDS Integers, Sequences, FiniteSets, TLC

VARIABLES
    \* ---- OpenAPIExample ----
    schemas,    \* the schema graph: node -> schema object
    mode,       \* ModeRequest or ModeResponse
    stack,      \* the call stack of OpenAPIExample, innermost frame last
    outcome,    \* what the outermost call returned (or that the process died)
    visits,     \* history: how often OpenAPIExample was entered for each node
    \* ---- server ----
    cfg,        \* "watch" (local file, --watch) or "http" (remote uri)
    fileDoc,    \* the document currently stored at uri
    data,       \* server's variable data
    err,        \* server's variable err
    swagger,    \* server's variable swagger
    rr,         \* RefreshableRouter.router
    stale,      \* values of rr and data overwritten but not yet synchronised
    mainpc,     \* where server() itself is
    mainlr,     \* what load returned to server() itself
    events,     \* fsnotify Write events the watcher goroutine has not received
    att,        \* the reload attempts: watcher goroutine or /__reload requests
    req,        \* the request to "/", /__schema or /__health being answered
    hist,       \* history: the routers installed and by whom
    \* ---- getExample ----
    op,         \* the operation of the matched route
    reqIn,      \* the request's Accept and Prefer headers
    resp,       \* what getExample returned for each request
    \* ---- handler ----
    hreq,       \* the request and the options it is handled under
    hpc,        \* where the handler is
    sel,        \* what getExample returned to the handler
    w,          \* the http.ResponseWriter: status, Content-Type, body
    stages,     \* history: the stages of the handler that were evaluated
    \* ---- functions checked by themselves ----
    args,       \* the arguments of the call
    ret         \* what the call returned

exVars  == <<schemas, mode, stack, outcome, visits>>
srvVars == <<cfg, fileDoc, data, err, swagger, rr, stale, mainpc, mainlr, events, att,
            req, hist>>
hVars   == <<hreq, hpc, sel, w, stages>>
fnVars  == <<args, ret>>
selVars == <<op, reqIn, resp, hVars, fnVars>>
vars    == <<exVars, srvVars, selVars>>

Nil == "nil"

(***************************************************************************)
(* Bounds of the model.                                                    *)
(***************************************************************************)
\* number of schema objects of a document's schema graph
NumNodes == 2
\* the deepest call stack the runtime grants before it kills the process
MaxStack == 4
\* the longest string the runtime can hold before it kills the process
MaxStringLen == 24

Nodes == 1..NumNodes

(***************************************************************************)
(* example.go                                                              *)
(***************************************************************************)
ModeRequest  == 0
ModeResponse == 1

ErrNoExample == "No example found"

\* Synthesized values, tagged with their kind.
NilVal       == [kind |-> "nil"]
StrVal(s)    == [kind |-> "string", v |-> s]
BoolVal(b)   == [kind |-> "boolean", v |-> b]
ArrVal(q)    == [kind |-> "array", v |-> q]
ObjVal(f)    == [kind |-> "object", v |-> f]

\* (value, error) as OpenAPIExample returns them; err = Nil is Go's nil error.
Ok(v)   == [val |-> v, err |-> Nil]
Fail(e) == [val |-> NilVal, err |-> e]

PropNames == {"a", "b"}

\* A *float64 field of a schema: nil, or a pointer to a number.  Numbers are
\* counted in quarters (Unit), so that the halves and midpoints of the
\* numbers drawn are exact, as they are in float64.
Unit == 4
NilPtr == [nil |-> TRUE, v |-> 0]
Ptr(v) == [nil |-> FALSE, v |-> v]

\* An openapi3.Schema: the fields OpenAPIExample reads.  Items and the
\* targets of Properties are nodes of the graph (0: no Items).  Example and
\* Default are values (NilVal: not set), Enum is a sequence of values.
Schema(type, hasExample, props, items, addl, readOnly, writeOnly) ==
    [Type |-> type,
     Example |-> IF hasExample THEN StrVal("example") ELSE NilVal,
     Default |-> NilVal, Enum |-> <<>>,
     Min |-> NilPtr, Max |-> NilPtr, ExclusiveMin |-> FALSE, ExclusiveMax |-> FALSE,
     MultipleOf |-> NilPtr,
     Format |-> "", MinLength |-> 0, MaxLength |-> NilPtr,
     Properties |-> props,
     Items |-> items, AdditionalProperties |-> addl,
     ReadOnly |-> readOnly, WriteOnly |-> writeOnly]

\* schema with the explicit values example, default and enum.
WithExplicit(schema, example, default, enum) ==
    [schema EXCEPT !.Example = example, !.Default = default, !.Enum = enum]

\* A string schema with its format and the bounds of its length.
StringSchema(format, minLength, maxLength) ==
    [Schema("string", FALSE, [k \in {} |-> 0], 0, 0, FALSE, FALSE) EXCEPT
        !.Format = format, !.MinLength = minLength, !.MaxLength = maxLength]

\* A number or integer schema with its constraints.
NumberSchema(type, min, max, exclusiveMin, exclusiveMax, multipleOf) ==
    [Schema(type, FALSE, [k \in {} |-> 0], 0, 0, FALSE, FALSE) EXCEPT
        !.Min = min, !.Max = max, !.ExclusiveMin = exclusiveMin,
        !.ExclusiveMax = exclusiveMax, !.MultipleOf = multipleOf]

NoProps == [k \in {} |-> 0]

\* The explicit values of the schemas drawn: example, default, enum.
ExplicitValues ==
    {<<StrVal("example"), BoolVal(FALSE), <<StrVal("enum0"), StrVal("enum1")>>>>,
     <<NilVal, BoolVal(FALSE), <<StrVal("enum0"), StrVal("enum1")>>>>,
     <<NilVal, NilVal, <<StrVal("enum0"), StrVal("enum1")>>>>}

\* Schemas with explicit values: an integer with constraints, and a schema
\* that has a property, items and additionalProperties, all the root itself.
ExplicitShapes ==
    {WithExplicit(base, e[1], e[2], e[3]) :
        base \in {NumberSchema("integer", Ptr(5 * Unit), NilPtr, TRUE, FALSE, NilPtr),
                  Schema("object", FALSE, [k \in {"a"} |-> 1], 1, 1, FALSE, FALSE)},
        e \in ExplicitValues}

\* The schema objects a node of the drawn graphs can be: the scalar kinds
\* (a string also read-only and write-only), a schema with an explicit
\* example, a schema without any type, a number with multipleOf 0.5, the
\* schemas with explicit values, objects over every choice of
\* properties, objects with additionalProperties, arrays with and without
\* items.
SchemaShapes ==
    {Schema("string", FALSE, NoProps, 0, 0, FALSE, FALSE),
     Schema("string", FALSE, NoProps, 0, 0, TRUE, FALSE),
     Schema("string", FALSE, NoProps, 0, 0, FALSE, TRUE),
     Schema("boolean", FALSE, NoProps, 0, 0, FALSE, FALSE),
     Schema("integer", FALSE, NoProps, 0, 0, FALSE, FALSE),
     Schema("", TRUE, NoProps, 0, 0, FALSE, FALSE),
     Schema("", FALSE, NoProps, 0, 0, FALSE, FALSE),
     NumberSchema("number", NilPtr, NilPtr, FALSE, FALSE, Ptr(Unit \div 2))}
    \cup ExplicitShapes
    \cup {Schema("object", FALSE, p, 0, 0, FALSE, FALSE) :
            p \in UNION {[S -> Nodes] : S \in SUBSET PropNames}}
    \cup {Schema("object", FALSE, NoProps, 0, n, FALSE, FALSE) : n \in Nodes}
    \cup {Schema("array", FALSE, NoProps, i, 0, FALSE, FALSE) : i \in Nodes \cup {0}}

\* getSchemaExample with default before example.
getSchemaExampleDefaultFirst(schema) ==
    IF schema.Default # NilVal THEN [ok |-> TRUE, ex |-> schema.Default]
    ELSE IF schema.Example # NilVal THEN [ok |-> TRUE, ex |-> schema.Example]
    ELSE IF Len(schema.Enum) > 0 THEN [ok |-> TRUE, ex |-> schema.Enum[1]]
    ELSE [ok |-> FALSE, ex |-> NilVal]

\* example.go 19-33
getSchemaExample(schema) ==
    IF schema.Example # NilVal THEN [ok |-> TRUE, ex |-> schema.Example]
    ELSE IF schema.Default # NilVal THEN [ok |-> TRUE, ex |-> schema.Default]
    ELSE IF Len(schema.Enum) > 0 THEN [ok |-> TRUE, ex |-> schema.Enum[1]]
    ELSE [ok |-> FALSE, ex |-> NilVal]

\* excludeFromMode with the two modes taken for each other.
excludeFromModeSwapped(m, schema) ==
    \/ m = ModeRequest /\ schema.WriteOnly
    \/ m = ModeResponse /\ schema.ReadOnly

excludeFromMode(m, schema) ==
    \/ m = ModeRequest /\ schema.ReadOnly
    \/ m = ModeResponse /\ schema.WriteOnly

\* fmt.Errorf("can't get example for '%s'", k)
PropertyError(k) ==
    IF k = "a" THEN "can't get example for 'a'" ELSE "can't get example for 'b'"

\* A frame of OpenAPIExample(mode, schema): pc is where the call is,
\* todo the properties the range loop has not reached, key the property
\* whose recursive call is running, acc the example map built so far,
\* res the value it is about to return.
Frame(n, pc) ==
    [node |-> n, pc |-> pc, todo |-> {}, key |-> "", acc |-> NoProps, res |-> Fail(Nil)]

Top == stack[Len(stack)]

SetTop(f) == [stack EXCEPT ![Len(stack)] = f]

Running == outcome.status = "running"

\* The stack cannot grow any more: the Go runtime ends the process
\* (fatal error: stack overflow), which no recover() catches.
CallOverflows == Len(stack) >= MaxStack

ErrRecursive == "Recursive schema"

\* Recurse with cycle detection that never forgets: a schema seen anywhere
\* before, not only on the current path, is refused as recursive.
RecurseSeenAnywhere(parent, child) ==
    IF visits[child] > 0
    THEN /\ stack' = SetTop([parent EXCEPT !.pc = "ret", !.res = Fail(ErrRecursive)])
         /\ UNCHANGED <<outcome, visits>>
    ELSE /\ stack' = Append(SetTop(parent), Frame(child, "call"))
         /\ visits' = [visits EXCEPT ![child] = @ + 1]
         /\ UNCHANGED outcome

\* The recursive call OpenAPIExample(mode, schemas[child]) made by the top
\* frame, which goes on as parent: example.go 162, 183, 195.
Recurse(parent, child) ==
    IF CallOverflows
    THEN /\ outcome' = [status |-> "fatal", res |-> Fail("stack overflow")]
         /\ stack' = SetTop(parent)
         /\ UNCHANGED visits
    ELSE /\ stack' = Append(SetTop(parent), Frame(child, "call"))
         /\ visits' = [visits EXCEPT ![child] = @ + 1]
         /\ UNCHANGED outcome

\* The top frame goes on to its return statement with res.
Returns(res) ==
    /\ stack' = SetTop([Top EXCEPT !.pc = "ret", !.res = res])
    /\ UNCHANGED <<outcome, visits>>

\* example.go 37-77, for the formats drawn.
stringFormatExample(format) ==
    CASE format = "date" -> "2018-07-23"
      [] format = "email" -> "email@example.com"
      [] format = "password" -> "********"
      [] OTHER -> ""

\* example.go 149-151: example += example while minLength is above its
\* length.  A string longer than the runtime can hold ends the process
\* (fatal error: out of memory, or string concatenation too long).
RECURSIVE Doubled(_, _)
Doubled(example, minLength) ==
    IF minLength <= Len(example) THEN [fatal |-> FALSE, s |-> example]
    ELSE IF 2 * Len(example) > MaxStringLen THEN [fatal |-> TRUE, s |-> example]
    ELSE Doubled(example \o example, minLength)

\* example.go 142-157: the string rules.
StringExample(schema) ==
    IF stringFormatExample(schema.Format) # ""
    THEN [fatal |-> FALSE, s |-> stringFormatExample(schema.Format)]
    ELSE LET example == Doubled("string", schema.MinLength)
         IN IF ~example.fatal /\ ~schema.MaxLength.nil
               /\ schema.MaxLength.v < Len(example.s)
            THEN [fatal |-> FALSE, s |-> SubSeq(example.s, 1, schema.MaxLength.v)]
            ELSE example

\* A synthesized number, in quarters.
NumVal(v) == [kind |-> "number", v |-> v]

\* The call does not return: a runtime panic.
PanicVal == [kind |-> "panic"]

\* int(x) of a float64: the integer part, rounded toward zero.
IntOf(v) == IF v >= 0 THEN v \div Unit ELSE -((-v) \div Unit)

\* a % b of Go's int, b # 0: the remainder has the sign of a.
Rem(a, b) ==
    LET r == (IF a >= 0 THEN a ELSE -a) % (IF b >= 0 THEN b ELSE -b)
    IN IF a >= 0 THEN r ELSE -r

\* example.go 109-119, 121-131 with the two bounds in each other's place.
ClampMaxFirst(schema) ==
    LET Mid == (schema.Min.v + schema.Max.v) \div 2
        v1 == IF ~schema.Max.nil /\ schema.Max.v < 0
              THEN IF ~schema.ExclusiveMax THEN schema.Max.v
                   ELSE IF ~schema.Min.nil THEN Mid
                   ELSE schema.Max.v - Unit
              ELSE 0
    IN IF ~schema.Min.nil /\ schema.Min.v > v1
       THEN IF ~schema.ExclusiveMin THEN schema.Min.v
            ELSE IF ~schema.Max.nil THEN Mid
            ELSE schema.Min.v + Unit
       ELSE v1

\* example.go 107-131: value after the minimum and the maximum were applied.
Clamp(schema) ==
    LET Mid == (schema.Min.v + schema.Max.v) \div 2
        v1 == IF ~schema.Min.nil /\ schema.Min.v > 0
              THEN IF ~schema.ExclusiveMin THEN schema.Min.v
                   ELSE IF ~schema.Max.nil THEN Mid
                   ELSE schema.Min.v + Unit
              ELSE 0
    IN IF ~schema.Max.nil /\ schema.Max.v < v1
       THEN IF ~schema.ExclusiveMax THEN schema.Max.v
            ELSE IF ~schema.Min.nil THEN Mid
            ELSE schema.Max.v - Unit
       ELSE v1

\* example.go 106-141: the number rules.  The remainder at 133 divides by
\* int(*schema.MultipleOf), which is 0 for a multipleOf below 1: the call
\* panics.
NumberExample(schema) ==
    LET value == Clamp(schema)
        m == IntOf(schema.MultipleOf.v)
    IN IF ~schema.MultipleOf.nil /\ m = 0 THEN PanicVal
       ELSE LET rounded == IF ~schema.MultipleOf.nil /\ Rem(IntOf(value), m) # 0
                           THEN value + Unit * (m - Rem(IntOf(value), m))
                           ELSE value
            IN IF schema.Type = "integer" THEN NumVal(Unit * IntOf(rounded))
               ELSE NumVal(rounded)

\* example.go 99-176: the explicit example, then the switch on the type.
OpenAPIExampleCall ==
    /\ Running /\ stack # <<>> /\ Top.pc = "call"
    /\ LET schema == schemas[Top.node]
           ex == getSchemaExample(schema)
       IN \/ /\ ex.ok
             /\ Returns(Ok(ex.ex))
          \/ /\ ~ex.ok /\ schema.Type = "boolean"
             /\ Returns(Ok(BoolVal(TRUE)))
          \/ /\ ~ex.ok /\ schema.Type \in {"number", "integer"}
             /\ IF NumberExample(schema) = PanicVal
                THEN /\ outcome' = [status |-> "panicked", res |-> Fail("integer divide by zero")]
                     /\ UNCHANGED <<stack, visits>>
                ELSE Returns(Ok(NumberExample(schema)))
          \/ /\ ~ex.ok /\ schema.Type = "string"
             /\ IF StringExample(schema).fatal
                THEN /\ outcome' = [status |-> "fatal", res |-> Fail("out of memory")]
                     /\ UNCHANGED <<stack, visits>>
                ELSE Returns(Ok(StrVal(StringExample(schema).s)))
          \/ /\ ~ex.ok /\ schema.Type = "array" /\ schema.Items = 0
             /\ Returns(Ok(ArrVal(<<>>)))
          \/ /\ ~ex.ok /\ schema.Type \notin {"boolean", "number", "integer", "string"}
             /\ schema.Items # 0
             /\ Recurse([Top EXCEPT !.pc = "item"], schema.Items)
          \/ /\ ~ex.ok
             /\ schema.Type \notin {"boolean", "number", "integer", "string", "array"}
             /\ schema.Items = 0
             /\ schema.Type = "object" \/ DOMAIN schema.Properties # {}
             /\ stack' = SetTop([Top EXCEPT !.pc = "props",
                                            !.todo = DOMAIN schema.Properties])
             /\ UNCHANGED <<outcome, visits>>
          \/ /\ ~ex.ok
             /\ schema.Type \notin {"boolean", "number", "integer", "string", "array", "object"}
             /\ schema.Items = 0 /\ DOMAIN schema.Properties = {}
             /\ Returns(Fail(ErrNoExample))
    /\ UNCHANGED <<schemas, mode, srvVars, selVars>>

\* example.go 178-189: one iteration of the range over schema.Properties
\* (Go ranges over a map in no fixed order): an excluded property is
\* skipped, any other is recursed into.
OpenAPIExampleProperty ==
    /\ Running /\ stack # <<>> /\ Top.pc = "props"
    /\ \E k \in Top.todo :
         LET child == schemas[Top.node].Properties[k]
             rest == [Top EXCEPT !.todo = @ \ {k}]
         IN \/ /\ excludeFromMode(mode, schemas[child])
               /\ stack' = SetTop(rest)
               /\ UNCHANGED <<outcome, visits>>
            \/ /\ ~excludeFromMode(mode, schemas[child])
               /\ Recurse([rest EXCEPT !.pc = "prop", !.key = k], child)
    /\ UNCHANGED <<schemas, mode, srvVars, selVars>>

\* example.go 191-204: after the loop, the additionalProperties schema.
OpenAPIExampleAdditional ==
    /\ Running /\ stack # <<>> /\ Top.pc = "props" /\ Top.todo = {}
    /\ LET addl == schemas[Top.node].AdditionalProperties
           skip == IF addl = 0 THEN TRUE ELSE excludeFromMode(mode, schemas[addl])
       IN \/ /\ ~skip
             /\ Recurse([Top EXCEPT !.pc = "addl"], addl)
          \/ /\ skip
             /\ Returns(Ok(ObjVal(Top.acc)))
    /\ UNCHANGED <<schemas, mode, srvVars, selVars>>

\* acc with acc[k] = v
MapSet(acc, k, v) ==
    [x \in DOMAIN acc \cup {k} |-> IF x = k THEN v ELSE acc[x]]

\* A caller that leaves out a property whose example failed and goes on.
ResumeSkipsFailedProperty(caller, res) ==
    CASE caller.pc = "item" ->
           IF res.err # Nil
           THEN [caller EXCEPT !.pc = "ret", !.res = Fail("can't get example for array item")]
           ELSE [caller EXCEPT !.pc = "ret", !.res = Ok(ArrVal(<<res.val>>))]
      [] caller.pc = "prop" ->
           IF res.err # Nil
           THEN [caller EXCEPT !.pc = "props"]
           ELSE [caller EXCEPT !.pc = "props", !.acc = MapSet(@, caller.key, res.val)]
      [] caller.pc = "addl" ->
           IF res.err # Nil
           THEN [caller EXCEPT !.pc = "ret",
                               !.res = Fail("can't get example for additional properties")]
           ELSE [caller EXCEPT !.pc = "ret",
                               !.res = Ok(ObjVal(MapSet(caller.acc, "additionalPropertyName",
                                                        res.val)))]

\* What the caller does with the result of the recursive call it waits for:
\* example.go 163-174 (array item; MinItems is 0 here), 184-188 (property)
\* and 196-204 (additional properties).
Resume(caller, res) ==
    CASE caller.pc = "item" ->
           IF res.err # Nil
           THEN [caller EXCEPT !.pc = "ret", !.res = Fail("can't get example for array item")]
           ELSE [caller EXCEPT !.pc = "ret", !.res = Ok(ArrVal(<<res.val>>))]
      [] caller.pc = "prop" ->
           IF res.err # Nil
           THEN [caller EXCEPT !.pc = "ret", !.res = Fail(PropertyError(caller.key))]
           ELSE [caller EXCEPT !.pc = "props", !.acc = MapSet(@, caller.key, res.val)]
      [] caller.pc = "addl" ->
           IF res.err # Nil
           THEN [caller EXCEPT !.pc = "ret",
                               !.res = Fail("can't get example for additional properties")]
           ELSE [caller EXCEPT !.pc = "ret",
                               !.res = Ok(ObjVal(MapSet(caller.acc, "additionalPropertyName",
                                                        res.val)))]

\* A call returns: to its caller, or, for the outermost call, to the user.
OpenAPIExampleReturn ==
    /\ Running /\ stack # <<>> /\ Top.pc = "ret"
    /\ \/ /\ Len(stack) = 1
          /\ stack' = <<>>
          /\ outcome' = [status |-> "returned", res |-> Top.res]
       \/ /\ Len(stack) > 1
          /\ stack' = [SubSeq(stack, 1, Len(stack) - 1) EXCEPT
                          ![Len(stack) - 1] = Resume(@, Top.res)]
          /\ UNCHANGED outcome
    /\ UNCHANGED <<schemas, mode, visits, srvVars, selVars>>

ExampleIdle ==
    /\ schemas = <<>> /\ mode = ModeRequest /\ stack = <<>>
    /\ outcome = [status |-> "idle", res |-> Fail(Nil)] /\ visits = <<>>

ServerIdle ==
    /\ cfg = Nil /\ fileDoc = Nil /\ data = Nil /\ err = Nil /\ swagger = <<>>
    /\ rr = <<>> /\ stale = <<>> /\ mainpc = Nil /\ mainlr = <<>> /\ events = 0
    /\ att = <<>> /\ req = <<>> /\ hist = <<>>

HandlerIdle ==
    /\ hreq = <<>> /\ hpc = Nil /\ sel = <<>> /\ w = <<>> /\ stages = {}

FnIdle ==
    /\ args = <<>> /\ ret = <<>>

SelectIdle ==
    /\ op = <<>> /\ reqIn = <<>> /\ resp = {}
    /\ HandlerIdle /\ FnIdle

\* OpenAPIExample(mode, schemas[1]) is called on a schema graph.
InitExample ==
    /\ schemas \in [Nodes -> SchemaShapes]
    /\ mode \in {ModeRequest, ModeResponse}
    /\ stack = <<Frame(1, "call")>>
    /\ outcome = [status |-> "running", res |-> Fail(Nil)]
    /\ visits = [n \in Nodes |-> IF n = 1 THEN 1 ELSE 0]
    /\ ServerIdle /\ SelectIdle

NextExample ==
    \/ OpenAPIExampleCall
    \/ OpenAPIExampleProperty
    \/ OpenAPIExampleAdditional
    \/ OpenAPIExampleReturn

SpecExample == InitExample /\ [][NextExample]_vars

(***************************************************************************)
(* Claims about OpenAPIExample's recursion (SpecExample).                  *)
(***************************************************************************)
\* The schemas OpenAPIExample recurses into from schema n.
Children(n) ==
    LET sc == schemas[n]
    IN  {sc.Properties[k] : k \in DOMAIN sc.Properties}
        \cup ({sc.Items, sc.AdditionalProperties} \ {0})

RECURSIVE ReachIn(_, _)
\* The schemas reachable from the set S in at most steps recursions.
ReachIn(S, steps) ==
    IF steps = 0 THEN S
    ELSE ReachIn(S \cup UNION {Children(n) : n \in S}, steps - 1)

Reachable(n) == ReachIn({n}, NumNodes)

\* No schema reachable from the root is reachable from itself.
Acyclic == \A n \in Reachable(1) : n \notin ReachIn(Children(n), NumNodes)

\* A schema from which no example can be derived (no example, no type, no
\* properties, no items) is reachable from the root.
TypelessReachable ==
    \E n \in Reachable(1) :
        /\ schemas[n].Type = "" /\ ~getSchemaExample(schemas[n]).ok
        /\ Children(n) = {}

\* Some schema is on the current call path twice: a call recursed into a
\* schema that is its own ancestor.
OnPathTwice ==
    \E i, j \in 1..Len(stack) : i < j /\ stack[i].node = stack[j].node

\* C1: OpenAPIExample terminates on every finite schema graph: it never
\* recurses into a schema that is already on the current path (it returns
\* a recursion error and a nil value there), so the call depth stays within
\* the number of schemas and the process is never ended by the runtime.
C1_CycleReturnsRecursionError ==
    /\ ~OnPathTwice
    /\ outcome.status # "fatal"
    /\ Len(stack) <= NumNodes

\* C2: on a schema graph without cycles, a schema shared by several branches
\* is synthesized on each of them: the call returns, it is never reported as
\* recursive, and it fails only when a schema without any example is
\* reachable.
C2_SharedSchemaSynthesized ==
    Acyclic =>
        /\ outcome.status # "fatal"
        /\ outcome.res.err # ErrRecursive
        /\ \A i \in 1..Len(stack) : stack[i].res.err # ErrRecursive
        /\ (outcome.status = "returned" /\ ~TypelessReachable) => outcome.res.err = Nil

\* C2 witness: an acyclic graph whose shared schema was entered twice, and
\* the whole synthesis succeeded with both property values in place.
C2_Witness ==
    /\ Acyclic
    /\ outcome.status = "returned" /\ outcome.res.err = Nil
    /\ \E n \in Nodes : n # 1 /\ visits[n] >= 2
    /\ outcome.res.val.kind = "object"
    /\ DOMAIN outcome.res.val.v = PropNames

\* A schema has an explicit value.
Explicit(schema) ==
    schema.Example # NilVal \/ schema.Default # NilVal \/ schema.Enum # <<>>

\* The explicit value of a schema: example, then default, then enum[0].
ExplicitValue(schema) ==
    IF schema.Example # NilVal THEN schema.Example
    ELSE IF schema.Default # NilVal THEN schema.Default
    ELSE Head(schema.Enum)

\* C18: for a schema of any kind with an explicit value, OpenAPIExample
\* returns schema.example if set, else schema.default if set, else enum[0],
\* unchanged, and looks neither at the type and the constraints nor at the
\* children: the call for such a schema makes no recursive call.
C18_ExplicitValueFirst ==
    /\ \A i \in 1..Len(stack) :
         Explicit(schemas[stack[i].node]) =>
            /\ stack[i].pc \in {"call", "ret"}
            /\ stack[i].pc = "ret" => stack[i].res = Ok(ExplicitValue(schemas[stack[i].node]))
    /\ (outcome.status # "idle" /\ Explicit(schemas[1])) =>
            /\ outcome.status \in {"running", "returned"}
            /\ \A n \in Nodes : visits[n] = IF n = 1 THEN 1 ELSE 0
            /\ outcome.status = "returned" => outcome.res = Ok(ExplicitValue(schemas[1]))

\* C18 witness: the root has the default false, an enum and no example, and a
\* property, items and additionalProperties that are the root itself; the
\* default was returned.
C18_Witness ==
    /\ outcome.status = "returned" /\ outcome.res = Ok(BoolVal(FALSE))
    /\ schemas[1].Example = NilVal /\ schemas[1].Enum # <<>>
    /\ schemas[1].Items = 1 /\ DOMAIN schemas[1].Properties = {"a"}

\* A schema the mode leaves out: read-only in a request, write-only in a
\* response.
Hidden(schema) ==
    \/ mode = ModeRequest /\ schema.ReadOnly
    \/ mode = ModeResponse /\ schema.WriteOnly

\* An object schema whose value is synthesized.
IsObjectSchema(n) ==
    schemas[n].Type = "object" /\ schemas[n].Items = 0 /\ ~Explicit(schemas[n])

\* The keys claimed for the value of object schema n.
ObjectKeys(n) ==
    {k \in DOMAIN schemas[n].Properties : ~Hidden(schemas[schemas[n].Properties[k]])}
    \cup (IF schemas[n].AdditionalProperties # 0
             /\ ~Hidden(schemas[schemas[n].AdditionalProperties])
          THEN {"additionalPropertyName"} ELSE {})

\* C19: the value synthesized for an object schema has exactly the keys of
\* the declared properties that are not readOnly (Request mode) or not
\* writeOnly (Response mode), and additionalPropertyName when there is an
\* additionalProperties schema that the mode does not leave out; so a
\* property that is neither is a key in both modes.
C19_ObjectKeysByMode ==
    /\ \A i \in 1..Len(stack) :
         (stack[i].pc = "ret" /\ stack[i].res.err = Nil /\ IsObjectSchema(stack[i].node)) =>
            /\ stack[i].res.val.kind = "object"
            /\ DOMAIN stack[i].res.val.v = ObjectKeys(stack[i].node)
    /\ (outcome.status = "returned" /\ outcome.res.err = Nil /\ IsObjectSchema(1)) =>
            /\ outcome.res.val.kind = "object"
            /\ DOMAIN outcome.res.val.v = ObjectKeys(1)

\* C19 witness: in Request mode the root's properties a and b are a
\* read-only string, and the value returned is an object without keys.
C19_Witness ==
    /\ mode = ModeRequest
    /\ outcome.status = "returned" /\ outcome.res.err = Nil /\ IsObjectSchema(1)
    /\ DOMAIN schemas[1].Properties = PropNames
    /\ \A k \in PropNames : schemas[schemas[1].Properties[k]].ReadOnly
    /\ outcome.res.val.kind = "object" /\ DOMAIN outcome.res.val.v = {}

\* An example can be derived from schema n: it has an explicit value or a
\* scalar type, or it is an array whose item schema, if any, gives an
\* example, or an object all of whose children that the mode does not leave
\* out give one.
RECURSIVE Derivable(_, _)
Derivable(n, fuel) ==
    LET sc == schemas[n]
        Sub(c) == Hidden(schemas[c]) \/ (fuel > 0 /\ Derivable(c, fuel - 1))
    IN CASE Explicit(sc) \/ sc.Type \in {"boolean", "number", "integer", "string"} -> TRUE
         [] sc.Type = "array" \/ sc.Items # 0 ->
              sc.Items = 0 \/ (fuel > 0 /\ Derivable(sc.Items, fuel - 1))
         [] sc.Type = "object" \/ DOMAIN sc.Properties # {} ->
              /\ \A k \in DOMAIN sc.Properties : Sub(sc.Properties[k])
              /\ sc.AdditionalProperties = 0 \/ Sub(sc.AdditionalProperties)
         [] OTHER -> FALSE

\* What the call for schema n may return: a value when an example can be
\* derived from every child it visits, else nil and an error: for an array
\* the item error, for an object the error that names a property that is
\* not left out and gives no example, or the additionalProperties error
\* when every property gives one.
AllOrNothing(res, n) ==
    LET sc == schemas[n]
        failing == {k \in DOMAIN sc.Properties :
                      /\ ~Hidden(schemas[sc.Properties[k]])
                      /\ ~Derivable(sc.Properties[k], NumNodes)}
    IN IF Derivable(n, NumNodes) THEN res.err = Nil /\ res.val # NilVal
       ELSE /\ res.val = NilVal
            /\ CASE sc.Type = "array" \/ sc.Items # 0 ->
                      res.err = "can't get example for array item"
                 [] sc.Type = "object" \/ DOMAIN sc.Properties # {} ->
                      IF failing # {} THEN \E k \in failing : res.err = PropertyError(k)
                      ELSE res.err = "can't get example for additional properties"
                 [] OTHER -> res.err = ErrNoExample

MaxEdits == 1

\* The documents that can be stored at uri, told apart by what the loader
\* and the router make of them:
\*   A, B     load; B declares one path more than A;
\*   Bad      LoadSwaggerFromDataWithPath returns an error for it;
\*   Panic    the loader panics;
\*   Invalid  it loads, NewRouter().WithSwagger panics on it.
Docs == {"A", "B", "Bad", "Panic", "Invalid"}

\* What loadSwaggerFromUri returns as data together with an error: nothing,
\* or the bytes read before the error (ioutil.ReadFile and ioutil.ReadAll
\* return what they have read so far).  Cut is a beginning of B that is a
\* document by itself.
FailedReadData == {"", "Cut"}

ParseOutcome(d) ==
    CASE d \in {"A", "B", "Cut"} -> "ok"
      [] d = "Panic" -> "panic"
      [] d = "Invalid" -> "router_panic"
      [] OTHER -> "error"

Paths == {"/a", "/b"}

\* The paths a document declares.
DocPaths(d) ==
    CASE d \in {"A", "Cut"} -> {"/a"}
      [] d = "B" -> {"/a", "/b"}
      [] OTHER -> {}

\* A parsed document or a router, known by the document it was made from.
\* NoObject is Go's nil pointer.
Object(d) == [doc |-> d]
NoObject == Object(Nil)

LoadResult(sw, router, e, panicked) ==
    [swagger |-> sw, router |-> router, err |-> e, panicked |-> panicked]

\* load's named results when its body ends, by return or by panic:
\* apisprout.go 1159-1195 (validate-server is off: 1176).
loadBody(d) ==
    CASE ParseOutcome(d) = "panic" ->
           LoadResult(NoObject, NoObject, Nil, TRUE)
      [] ParseOutcome(d) = "error" ->
           LoadResult(NoObject, NoObject, "load error", FALSE)
      [] ParseOutcome(d) = "router_panic" ->
           LoadResult(Object(d), NoObject, Nil, TRUE)
      [] OTHER ->
           LoadResult(Object(d), Object(d), Nil, FALSE)

\* A recover that sets the error and leaves the document as it was.
recoverKeepsDocument(res) ==
    IF res.panicked
    THEN [res EXCEPT !.router = NoObject, !.err = "Caught panic while trying to load"]
    ELSE res

\* load's deferred function: apisprout.go 1147-1157.
recover(res) ==
    IF res.panicked
    THEN LoadResult(NoObject, NoObject, "Caught panic while trying to load", TRUE)
    ELSE res

load(d) == recover(loadBody(d))

\* loadSwaggerFromUri(uri): the document and no error, or an error.
FetchResults ==
    {[data |-> fileDoc, err |-> Nil]}
    \cup {[data |-> d, err |-> "fetch error"] : d \in FailedReadData}

Watcher == 0
\* Two /__reload requests, so that one can overlap the other.
Reloaders == {1, 2}

\* A reload attempt: the watcher goroutine's loop body or a /__reload
\* request.  lr is what load returned to it, status the HTTP status it
\* answered (0: none); ffail, installed and logged are history: its fetch
\* failed, it called rr.Set, it logged an error.
Attempt(pc) ==
    [pc |-> pc, lr |-> LoadResult(NoObject, NoObject, Nil, FALSE), status |-> 0,
     ffail |-> FALSE, installed |-> FALSE, logged |-> FALSE]

\* A request: the router or the data it read, what it answered; expect and
\* fresh are history: the router the last successful reload had installed
\* when the request started, and that the request read the last value
\* written.
Request(pc, kind, router, status, body, expect, fresh) ==
    [pc |-> pc, kind |-> kind, router |-> router, status |-> status, body |-> body,
     expect |-> expect, fresh |-> fresh]

NoRequest == Request("idle", "", NoObject, 0, "", NoObject, TRUE)

Serving == mainpc = "serve"

\* rr.router and data are plain variables written by one goroutine and read
\* by others without synchronisation.  A read by another goroutine returns
\* the last value written or one written before it that is not yet hidden
\* by a synchronisation (stale); data, a slice of three words, can also be
\* read half old, half new.
RouterReads == {rr} \cup stale.rr
DataReads ==
    {data} \cup stale.data \cup (IF stale.data \ {data} # {} THEN {"torn"} ELSE {})

\* RefreshableRouter.Set: apisprout.go 896-898.
Set(router) ==
    /\ rr' = router
    /\ stale' = [stale EXCEPT !.rr = (@ \cup {rr}) \ {router}]

\* The assignment to data at 1520 and 1554.
SetData(d) ==
    /\ data' = d
    /\ stale' = [stale EXCEPT !.data = (@ \cup {data}) \ {d}]

\* The goroutines synchronise (by a lock of the runtime, a channel, a
\* system call): every later read returns the last value written.
MemorySync ==
    /\ stale.rr # {} \/ stale.data # {}
    /\ stale' = [rr |-> {}, data |-> {}]
    /\ UNCHANGED <<cfg, fileDoc, data, err, swagger, rr, mainpc, mainlr, events, att,
                   req, hist, exVars, selVars>>

\* The document at uri is replaced; fsnotify reports it to a watcher.
EditFile ==
    /\ mainpc \in {"load", "set", "serve"}
    /\ hist.edits < MaxEdits
    /\ \E d \in Docs \ {fileDoc} : fileDoc' = d
    /\ events' = IF cfg = "watch" THEN events + 1 ELSE events
    /\ hist' = [hist EXCEPT !.edits = @ + 1]
    /\ UNCHANGED <<cfg, data, err, swagger, rr, stale, mainpc, mainlr, att, req,
                   exVars, selVars>>

\* server, apisprout.go 1544-1547: the first load; log.Fatal ends the
\* process when it fails.
MainLoad ==
    /\ mainpc = "load"
    /\ LET res == load(data)
       IN /\ mainlr' = res
          /\ swagger' = res.swagger
          /\ err' = res.err
          /\ mainpc' = IF res.err # Nil THEN "fatal" ELSE "set"
    /\ UNCHANGED <<cfg, fileDoc, data, rr, stale, events, att, req, hist, exVars, selVars>>

\* server, apisprout.go 1549: rr.Set(router); the handlers are registered
\* and the server listens.
MainSet ==
    /\ mainpc = "set"
    /\ Set(mainlr.router)
    /\ mainpc' = "serve"
    /\ hist' = [hist EXCEPT !.good = mainlr.router]
    /\ UNCHANGED <<cfg, fileDoc, data, err, swagger, mainlr, events, att, req,
                   exVars, selVars>>

Alive == mainpc \in {"load", "set", "serve"}

\* The watcher goroutine, apisprout.go 1514-1523: a Write event arrives,
\* the file is read into data; an error is logged and the loop body goes on.
WatcherFetch ==
    /\ cfg = "watch" /\ Alive
    /\ att[Watcher].pc \in {"idle", "done"}
    /\ events > 0
    /\ events' = events - 1
    /\ \E f \in FetchResults :
         /\ SetData(f.data)
         /\ err' = f.err
         /\ att' = [att EXCEPT ![Watcher] =
                      [Attempt("fetched") EXCEPT !.ffail = f.err # Nil,
                                                 !.logged = f.err # Nil]]
    /\ UNCHANGED <<cfg, fileDoc, swagger, rr, mainpc, mainlr, req, hist,
                   exVars, selVars>>

\* The watcher goroutine, apisprout.go 1525 and 1528-1530: load(uri, data);
\* its error is logged.
WatcherLoad ==
    /\ cfg = "watch" /\ Alive
    /\ att[Watcher].pc = "fetched"
    /\ LET res == load(data)
       IN att' = [att EXCEPT ![Watcher].lr = res,
                             ![Watcher].pc = IF res.err = Nil THEN "loaded" ELSE "done",
                             ![Watcher].logged = @ \/ res.err # Nil]
    /\ UNCHANGED <<cfg, fileDoc, data, err, swagger, rr, stale, mainpc, mainlr, events,
                   req, hist, exVars, selVars>>

\* apisprout.go 1526 and 1557: swagger = s
AttemptSetSwagger(p) ==
    /\ Alive
    /\ att[p].pc = "loaded"
    /\ swagger' = att[p].lr.swagger
    /\ att' = [att EXCEPT ![p].pc = "swaggerSet"]
    /\ UNCHANGED <<cfg, fileDoc, data, err, rr, stale, mainpc, mainlr, events, req,
                   hist, exVars, selVars>>

\* apisprout.go 1527 and 1558: rr.Set(r)
AttemptSetRouter(p) ==
    /\ Alive
    /\ att[p].pc = "swaggerSet"
    /\ Set(att[p].lr.router)
    /\ att' = [att EXCEPT ![p].pc = IF p = Watcher THEN "done" ELSE "respond",
                          ![p].installed = TRUE]
    /\ hist' = [hist EXCEPT
                  !.good = IF att[p].ffail THEN @ ELSE att[p].lr.router,
                  !.lastReload = IF att[p].ffail THEN @ ELSE att[p].lr.router]
    /\ UNCHANGED <<cfg, fileDoc, data, err, swagger, mainpc, mainlr, events, req,
                   exVars, selVars>>

\* /__reload, apisprout.go 1553-1554: data, err = loadSwaggerFromUri(uri)
ReloadFetch(p) ==
    /\ cfg = "http" /\ Serving
    /\ att[p].pc = "idle"
    /\ \E f \in FetchResults :
         /\ SetData(f.data)
         /\ err' = f.err
         /\ att' = [att EXCEPT ![p].pc = "fetched", ![p].ffail = f.err # Nil]
    /\ UNCHANGED <<cfg, fileDoc, swagger, rr, mainpc, mainlr, events, req, hist,
                   exVars, selVars>>

\* /__reload, apisprout.go 1555-1556: if err == nil, load(uri, data) into
\* s, r and an err of the if statement's own.
ReloadLoad(p) ==
    /\ cfg = "http" /\ Serving
    /\ att[p].pc = "fetched"
    /\ IF err = Nil
       THEN LET res == load(data)
            IN att' = [att EXCEPT ![p].lr = res,
                                  ![p].pc = IF res.err = Nil THEN "loaded" ELSE "respond"]
       ELSE att' = [att EXCEPT ![p].pc = "respond"]
    /\ UNCHANGED <<cfg, fileDoc, data, err, swagger, rr, stale, mainpc, mainlr, events,
                   req, hist, exVars, selVars>>

\* /__reload, apisprout.go 1561-1569: 200 "reloaded" if err == nil, else
\* the error is logged and the answer is 400.
ReloadRespond(p) ==
    /\ cfg = "http" /\ Serving
    /\ att[p].pc = "respond"
    /\ att' = [att EXCEPT ![p].pc = "done",
                          ![p].status = IF err = Nil THEN 200 ELSE 400,
                          ![p].logged = err # Nil]
    /\ UNCHANGED <<cfg, fileDoc, data, err, swagger, rr, stale, mainpc, mainlr, events,
                   req, hist, exVars, selVars>>

\* rr.Get().FindRoute(req.Method, req.URL): apisprout.go 1313
FindRoute(router, path) == path \in DocPaths(router.doc)

\* The handler of "/", apisprout.go 1313-1318: the route is looked up in
\* the router read from rr; 404 without a route.  With a route the handler
\* goes on with it (req.router keeps the router the route is of).
HandlerRequest ==
    /\ Serving
    /\ req.pc = "idle"
    /\ \E router \in RouterReads, path \in Paths :
         req' = Request(IF FindRoute(router, path) THEN "routed" ELSE "done", "/", router,
                        IF FindRoute(router, path) THEN 0 ELSE 404,
                        path, hist.lastReload, router = rr)
    /\ hist' = [hist EXCEPT !.gets = 1]
    /\ UNCHANGED <<cfg, fileDoc, data, err, swagger, rr, stale, mainpc, mainlr, events,
                   att, exVars, selVars>>

\* A handler that looks the route up again, in the router that rr holds
\* when the answer is made.
HandlerAnswerReadsAgain ==
    /\ Serving
    /\ req.pc = "routed"
    /\ \E router \in RouterReads :
         req' = [req EXCEPT !.pc = "done",
                            !.status = IF FindRoute(router, req.body) THEN 200 ELSE 404]
    /\ hist' = [hist EXCEPT !.gets = @ + 1]
    /\ UNCHANGED <<cfg, fileDoc, data, err, swagger, rr, stale, mainpc, mainlr, events,
                   att, exVars, selVars>>

\* The handler of "/", apisprout.go 1320-1430: validation, getExample on
\* route.Operation, encoding and the answer, all on the route found at 1313.
HandlerAnswer ==
    /\ Serving
    /\ req.pc = "routed"
    /\ req' = [req EXCEPT !.pc = "done",
                          !.status = IF FindRoute(req.router, req.body) THEN 200 ELSE 404]
    /\ UNCHANGED <<cfg, fileDoc, data, err, swagger, rr, stale, mainpc, mainlr, events,
                   att, hist, exVars, selVars>>

\* /__schema, apisprout.go 1580-1592: the document as loaded, read from data.
SchemaRequest ==
    /\ Serving
    /\ req.pc = "idle"
    /\ \E d \in DataReads :
         req' = Request("done", "/__schema", rr, 200, d, hist.lastReload, d = data)
    /\ UNCHANGED <<cfg, fileDoc, data, err, swagger, rr, stale, mainpc, mainlr, events,
                   att, hist, exVars, selVars>>

\* /__health, apisprout.go 1574-1577
HealthRequest ==
    /\ Serving
    /\ req.pc = "idle"
    /\ req' = Request("done", "/__health", rr, 200, "", hist.lastReload, TRUE)
    /\ UNCHANGED <<cfg, fileDoc, data, err, swagger, rr, stale, mainpc, mainlr, events,
                   att, hist, exVars, selVars>>

\* The answer is sent; the next request can come.
RequestEnds ==
    /\ req.pc = "done"
    /\ req' = NoRequest
    /\ hist' = [hist EXCEPT !.gets = 0]
    /\ UNCHANGED <<cfg, fileDoc, data, err, swagger, rr, stale, mainpc, mainlr, events,
                   att, exVars, selVars>>

\* server after loadSwaggerFromUri has returned the document (1490) and,
\* with --watch, the watcher goroutine is running (1508-1541).
Init ==
    /\ cfg \in {"watch", "http"}
    /\ fileDoc \in Docs
    /\ data = fileDoc
    /\ err = Nil
    /\ swagger = NoObject
    /\ rr = NoObject
    /\ stale = [rr |-> {}, data |-> {}]
    /\ mainpc = "load"
    /\ mainlr = LoadResult(NoObject, NoObject, Nil, FALSE)
    /\ events = 0
    /\ att = IF cfg = "watch" THEN [p \in {Watcher} |-> Attempt("idle")]
             ELSE [p \in Reloaders |-> Attempt("idle")]
    /\ req = NoRequest
    /\ hist = [edits |-> 0, good |-> NoObject, lastReload |-> NoObject, gets |-> 0]
    /\ ExampleIdle /\ SelectIdle

Next ==
    \/ MemorySync
    \/ EditFile
    \/ MainLoad
    \/ MainSet
    \/ WatcherFetch
    \/ WatcherLoad
    \/ \E p \in DOMAIN att : AttemptSetSwagger(p)
    \/ \E p \in DOMAIN att : AttemptSetRouter(p)
    \/ \E p \in DOMAIN att : ReloadFetch(p)
    \/ \E p \in DOMAIN att : ReloadLoad(p)
    \/ \E p \in DOMAIN att : ReloadRespond(p)
    \/ HandlerRequest
    \/ HandlerAnswer
    \/ SchemaRequest
    \/ HealthRequest
    \/ RequestEnds

Spec == Init /\ [][Next]_vars

(***************************************************************************)
(* Claims about reloading (Spec).                                          *)
(***************************************************************************)
\* An attempt that has failed: its fetch or its load returned an error.
Failed(p) == att[p].ffail \/ att[p].lr.err # Nil

\* C3: a failed reload attempt leaves the serving state unchanged: the router
\* in rr is the one installed by the last attempt that did not fail (an
\* attempt whose fetch or load fails never installs one), and /__health
\* answers 200.
C3_FailedReloadKeepsRouter ==
    /\ Serving => rr = hist.good
    /\ \A p \in DOMAIN att : Failed(p) => ~att[p].installed
    /\ (req.pc = "done" /\ req.kind = "/__health") => req.status = 200

\* C4: the snapshot is never mixed: while the server serves, data, swagger
\* and the router in rr come from the same loaded document, and /__schema
\* answers with the document the router was made from.
C4_SnapshotNeverMixed ==
    /\ Serving => (data = rr.doc /\ swagger = rr)
    /\ (req.pc = "done" /\ req.kind = "/__schema") => req.body = req.router.doc

\* C5: every failed reload attempt is reported: a failed /__reload is not
\* answered 200, a failed attempt has logged an error when it ends, and a
\* 200 answer means that the attempt installed a router.
C5_FailedReloadReported ==
    \A p \in DOMAIN att :
        /\ att[p].status = 200 => att[p].installed
        /\ (att[p].pc = "done" /\ Failed(p)) => (att[p].logged /\ att[p].status # 200)

\* What load has returned to the attempts and to server itself.
LoadResults == {att[p].lr : p \in DOMAIN att} \cup {mainlr}

\* C6: a panic inside load comes out as a plain error: load returns a nil
\* document, a nil router and a non-nil error, and the reload attempt that
\* called it goes on to its end without installing anything.
C6_PanicBecomesError ==
    /\ \A res \in LoadResults :
          res.panicked =>
              /\ res.swagger = NoObject /\ res.router = NoObject
              /\ res.err # Nil
    /\ \A p \in DOMAIN att :
          att[p].lr.panicked =>
              (att[p].pc \in {"respond", "done"} /\ ~att[p].installed)

\* C6 witness: while the server serves, a reload loaded a document on which
\* the router panics after the document had been parsed, and the attempt
\* ended without a new router.
C6_Witness ==
    /\ Serving
    /\ \E p \in DOMAIN att :
          /\ att[p].lr.panicked /\ att[p].pc \in {"done", "respond"}
          /\ data = "Invalid" /\ ~att[p].installed
    /\ rr # NoObject

\* C7: once a reload has succeeded, a request that starts afterwards (and
\* reads the last value written to rr) is routed by the router that the
\* last successful reload installed.
C7_RequestsUseReloadedRouter ==
    (req.pc = "done" /\ req.kind = "/" /\ req.fresh /\ req.expect # NoObject)
        => req.router = req.expect

\* C23: a request reads rr once, at the route lookup, and is answered from
\* the route of that read, whatever reload sets rr meanwhile; the handler's
\* steps wait for no reload.
C23_OneRouterPerRequest ==
    /\ (req.kind = "/" /\ req.pc \in {"routed", "done"}) => hist.gets = 1
    /\ (req.kind = "/" /\ req.pc = "done") =>
          req.status = IF req.body \in DocPaths(req.router.doc) THEN 200 ELSE 404
    /\ (Serving /\ req.pc = "idle") => ENABLED HandlerRequest
    /\ (Serving /\ req.pc = "routed") => ENABLED HandlerAnswer

\* C23 witness: a request for /a found its route in the router of document
\* A, which rr then held; before it was answered a reload put the router
\* of document B into rr; the request was answered from the route it had.
C23_Witness ==
    /\ req.kind = "/" /\ req.pc = "done" /\ req.fresh
    /\ req.router.doc = "A" /\ rr.doc = "B" /\ stale.rr = {}
    /\ req.body = "/a" /\ req.status = 200

\* An attempt is between its fetch and its end.
InFlight(p) == att[p].pc \in {"fetched", "loaded", "swaggerSet", "respond"}

\* No two attempts are under way at once, and none is while server itself
\* loads the document and sets the first router.
OneAttemptAtATime ==
    /\ \A p, q \in DOMAIN att : (p # q /\ InFlight(p)) => ~InFlight(q)
    /\ \A p \in DOMAIN att : InFlight(p) => mainpc \notin {"load", "set"}

\* What /__reload answers is the outcome of its own fetch.
OwnOutcome ==
    \A p \in DOMAIN att : att[p].status # 0 => (att[p].status = 400 <=> att[p].ffail)

\* A router made from the contents that uri holds is not replaced by one
\* made from other contents while uri keeps them.
NewerRouterStays ==
    (rr # NoObject /\ rr.doc = fileDoc /\ fileDoc' = fileDoc) => rr'.doc = fileDoc

\* C24: reload attempts are serialized: the steps of two attempts, and of
\* a watcher's attempt and the initial load, never interleave; a router made
\* from older contents never replaces one made from newer contents; the
\* outcome an attempt reports is its own.
C24_ReloadsSerialized ==
    [](OneAttemptAtATime /\ OwnOutcome) /\ [][NewerRouterStays]_vars

(***************************************************************************)
(* apisprout.go: getTypedExample and getExample.                           *)
(***************************************************************************)
MediaTypes == {"application/json", "text/plain"}
ExampleNames == {"e1", "e2"}

\* An openapi3.MediaType as getTypedExample reads it: Example is set,
\* the keys of Examples, and what OpenAPIExample makes of Schema:
\*   "nil"     there is no schema;
\*   "ok"      a string;
\*   "object"  a map;
\*   "inf"     +Inf: a number schema with an exclusive bound whose
\*             minimum + maximum overflows float64 (example.go 114, 126);
\*   "err"     an error;
\*   "panic"   no return: the schema refers to itself (the stack overflows)
\*             or has a multipleOf below 1 (example.go 133 divides by
\*             int(multipleOf) = 0).
MediaType(example, examples, schema) ==
    [example |-> example, examples |-> examples, schema |-> schema]

MtInline == MediaType(TRUE, {}, "nil")
MtNamed  == MediaType(FALSE, ExampleNames, "nil")
MtSchema == MediaType(FALSE, {}, "ok")
MtBadSchema == MediaType(FALSE, {}, "err")
MtEmpty  == MediaType(FALSE, {}, "nil")

\* An openapi3.Response: Content is nil, or a map from media type names;
\* Headers is a map from header names, empty unless set with WithHeaders.
Response(hasContent, content) ==
    [hasContent |-> hasContent, content |-> content, headers |-> <<>>]

ResponseShapes ==
    { Response(FALSE, <<>>),
      Response(TRUE, [m \in {"application/json"} |-> MtEmpty]),
      Response(TRUE, [m \in MediaTypes |->
                         IF m = "text/plain" THEN MtInline ELSE MtNamed]),
      Response(TRUE, [m \in MediaTypes |->
                         IF m = "text/plain" THEN MtSchema ELSE MtBadSchema]) }

ResponseKeys == {"200", "201", "404", "default"}

\* The operations: op.Responses declares some of the keys.
Operations ==
    UNION {[K -> ResponseShapes] : K \in SUBSET ResponseKeys}

\* The Prefer header as parsePreferHeader returns it: a map that can hold
\* status and example.
PreferStatuses == {"200", "500", "default"}
Prefers ==
    UNION { {[k \in K |-> IF k = "status" THEN st ELSE "e1"] : st \in PreferStatuses}
            : K \in SUBSET {"status", "example"} }

\* A *ContentNegotiator: nil, or the globs of the Accept header.
Negotiator(isNil, globs) == [isNil |-> isNil, globs |-> globs]
Negotiators ==
    {Negotiator(TRUE, {}), Negotiator(FALSE, {"application/json"}),
     Negotiator(FALSE, {"text/*"})}

\* The type of a media type, before the slash.
MainType(mediatype) ==
    IF mediatype \in {"text/plain", "text/yaml"} THEN "text" ELSE "application"

\* glob.Match for the globs of the negotiators: * stands for any characters.
GlobMatch(g, mediatype) ==
    CASE g = "*/*" -> TRUE
      [] g = "text/*" -> MainType(mediatype) = "text"
      [] g = "application/*" -> MainType(mediatype) = "application"
      [] OTHER -> g = mediatype

\* A negotiator that lets every media type pass.
MatchAnything(cn, mediatype) == TRUE

\* ContentNegotiator.Match
Match(cn, mediatype) == \E g \in cn.globs : GlobMatch(g, mediatype)

\* strconv.Atoi on the strings that are response keys or status directives.
Atoi(str) ==
    CASE str = "200" -> [n |-> 200, err |-> Nil]
      [] str = "201" -> [n |-> 201, err |-> Nil]
      [] str = "404" -> [n |-> 404, err |-> Nil]
      [] str = "500" -> [n |-> 500, err |-> Nil]
      [] OTHER -> [n |-> 0, err |-> "invalid syntax"]

mapContainsKey(dict, key) == key \in DOMAIN dict

\* What getExample returns: status, media type, headers (of which response,
\* or blank), example and error; key is history: the response returned.
Result(status, mt, headers, example, e, key) ==
    [status |-> status, mt |-> mt, headers |-> headers, example |-> example,
     err |-> e, key |-> key]

\* The orders in which a range statement can go through a map with keys S.
RangeOrders(S) ==
    {q \in [1..Cardinality(S) -> S] : \A i, j \in 1..Cardinality(S) : i # j => q[i] # q[j]}

\* A float64 that is +Inf.
InfVal == [kind |-> "number", inf |-> TRUE]

\* Stands for the error of a call that panics instead of returning.
Panic == "panic"

\* OpenAPIExample(ModeResponse, mt.Schema.Value), 1035.
SchemaOutcome(schema) ==
    CASE schema = "ok" -> Ok(StrVal("generated"))
      [] schema = "object" -> Ok(ObjVal(NoProps))
      [] schema = "inf" -> Ok(InfVal)
      [] schema = "panic" -> Fail(Panic)
      [] OTHER -> Fail("can't get example")

\* keys[rand.Intn(len(keys))], 1023-1029: one of the keys of mt.Examples;
\* selected is the name the draw falls on, or passes over when it is not a
\* key.
RandomKey(examples, selected) ==
    IF selected \in examples THEN selected ELSE CHOOSE e \in examples : TRUE

\* getTypedExample without the example directive.
getTypedExampleAlwaysRandom(mt, prefer, selected) ==
    IF mt.example THEN Ok(StrVal("example"))
    ELSE IF mt.examples # {} THEN Ok(StrVal(RandomKey(mt.examples, selected)))
    ELSE IF mt.schema # "nil" THEN SchemaOutcome(mt.schema)
    ELSE Fail(ErrNoExample)

\* getTypedExample; the value of the example named e is the string e.
getTypedExample(mt, prefer, selected) ==
    IF mt.example THEN Ok(StrVal("example"))
    ELSE IF mt.examples # {}
    THEN IF mapContainsKey(prefer, "example") /\ prefer["example"] \in mt.examples
         THEN Ok(StrVal(prefer["example"]))
         ELSE Ok(StrVal(RandomKey(mt.examples, selected)))
    ELSE IF mt.schema # "nil"
    THEN SchemaOutcome(mt.schema)
    ELSE Fail(ErrNoExample)

IsSuccess(str) == Atoi(str).err = Nil /\ Atoi(str).n >= 200 /\ Atoi(str).n < 300
IsOther(str) == ~IsSuccess(str)

\* A list that tries the responses in the order of the map's range.
AnyOrderResponses(prefer, operation, order) ==
    IF ~mapContainsKey(prefer, "status") THEN order
    ELSE IF prefer["status"] \in DOMAIN operation THEN <<prefer["status"]>>
    ELSE IF "default" \in DOMAIN operation THEN <<"default">>
    ELSE <<>>

\* A list that goes on to all responses when the status asked for is not
\* declared.
FallBackToAllResponses(prefer, operation, order) ==
    IF mapContainsKey(prefer, "status") /\ prefer["status"] \in DOMAIN operation
    THEN <<prefer["status"]>>
    ELSE SelectSeq(order, IsSuccess) \o SelectSeq(order, IsOther)

\* getExample, 1045-1067: the responses to try; order is the order in which
\* range op.Responses goes through the keys.
Responses(prefer, operation, order) ==
    IF ~mapContainsKey(prefer, "status")
    THEN SelectSeq(order, IsSuccess) \o SelectSeq(order, IsOther)
    ELSE IF prefer["status"] \in DOMAIN operation THEN <<prefer["status"]>>
    ELSE IF "default" \in DOMAIN operation THEN <<"default">>
    ELSE <<>>

\* A status that takes no notice of the status directive.
StatusOfIgnoresDirective(str, prefer) ==
    IF Atoi(str).err = Nil THEN Atoi(str).n ELSE 200

\* getExample, 1072-1081: the status of response s (prefer["status"] is ""
\* without a status directive, and Atoi fails on it).
StatusOf(str, prefer) ==
    IF Atoi(str).err = Nil THEN Atoi(str).n
    ELSE IF mapContainsKey(prefer, "status") /\ Atoi(prefer["status"]).err = Nil
    THEN Atoi(prefer["status"]).n
    ELSE 200

\* A loop over the media types that gives up at the first media type for
\* which getTypedExample fails.
RECURSIVE TryContentStopsAtError(_, _, _, _, _, _, _)
TryContentStopsAtError(negotiator, prefer, str, content, mts, i, selected) ==
    IF i > Len(mts) THEN Fail(ErrNoExample)
    ELSE IF ~negotiator.isNil /\ ~Match(negotiator, mts[i])
    THEN TryContentStopsAtError(negotiator, prefer, str, content, mts, i + 1, selected)
    ELSE LET ex == getTypedExample(content[mts[i]], prefer, selected)
         IN IF ex.err = Nil
            THEN [val |-> Result(StatusOf(str, prefer), mts[i], str, ex.val, Nil, str),
                  err |-> Nil]
            ELSE IF ex.err = Panic
            THEN [val |-> Result(0, "", "blank", NilVal, Panic, str), err |-> Nil]
            ELSE Fail(ErrNoExample)

\* getExample, 1088-1100: the media types of a response in range order.
\* A panic of getTypedExample ends getExample: its result then has the
\* error Panic, which stands for no return at all.
RECURSIVE TryContent(_, _, _, _, _, _, _)
TryContent(negotiator, prefer, str, content, mts, i, selected) ==
    IF i > Len(mts) THEN Fail(ErrNoExample)
    ELSE IF ~negotiator.isNil /\ ~Match(negotiator, mts[i])
    THEN TryContent(negotiator, prefer, str, content, mts, i + 1, selected)
    ELSE LET ex == getTypedExample(content[mts[i]], prefer, selected)
         IN IF ex.err = Nil
            THEN [val |-> Result(StatusOf(str, prefer), mts[i], str, ex.val, Nil, str),
                  err |-> Nil]
            ELSE IF ex.err = Panic
            THEN [val |-> Result(0, "", "blank", NilVal, Panic, str), err |-> Nil]
            ELSE TryContent(negotiator, prefer, str, content, mts, i + 1, selected)

InContent(content, mts) == SelectSeq(mts, LAMBDA m : m \in DOMAIN content)

\* A loop over the responses that passes over a response without content
\* as it passes over one without a usable media type.
RECURSIVE TryResponsesSkipsNoContent(_, _, _, _, _, _, _)
TryResponsesSkipsNoContent(negotiator, prefer, operation, responses, i, mtOrder, selected) ==
    IF i > Len(responses) THEN Result(0, "", "blank", NilVal, ErrNoExample, "")
    ELSE LET str == responses[i]
             response == operation[str]
             found == TryContent(negotiator, prefer, str, response.content,
                                 InContent(response.content, mtOrder), 1, selected)
         IN IF response.hasContent /\ found.err = Nil THEN found.val
            ELSE TryResponsesSkipsNoContent(negotiator, prefer, operation, responses,
                                            i + 1, mtOrder, selected)

\* getExample, 1069-1103: the loop over the responses to try.
RECURSIVE TryResponses(_, _, _, _, _, _, _)
TryResponses(negotiator, prefer, operation, responses, i, mtOrder, selected) ==
    IF i > Len(responses) THEN Result(0, "", "blank", NilVal, ErrNoExample, "")
    ELSE LET str == responses[i]
             response == operation[str]
         IN IF ~response.hasContent
            THEN Result(StatusOf(str, prefer), "", "blank", StrVal(""), Nil, str)
            ELSE LET found == TryContent(negotiator, prefer, str, response.content,
                                         InContent(response.content, mtOrder), 1, selected)
                 IN IF found.err = Nil THEN found.val
                    ELSE TryResponses(negotiator, prefer, operation, responses, i + 1,
                                      mtOrder, selected)

\* getExample.  Only the range order of the content of the response that is
\* returned matters, so one order of the media types stands for all.
getExample(negotiator, prefer, operation, order, mtOrder, selected) ==
    TryResponses(negotiator, prefer, operation, Responses(prefer, operation, order),
                 1, mtOrder, selected)

\* A request for the operation is answered: getExample runs with the orders
\* that the map ranges and rand.Intn take this time (op.Responses is ranged
\* over only without a status directive, 1053).
GetExampleCall ==
    /\ \E order \in (IF mapContainsKey(reqIn.prefer, "status") THEN {<<>>}
                      ELSE RangeOrders(DOMAIN op)),
          mtOrder \in RangeOrders(MediaTypes), selected \in ExampleNames :
         resp' = resp \cup {getExample(reqIn.negotiator, reqIn.prefer, op, order,
                                       mtOrder, selected)}
    /\ UNCHANGED <<op, reqIn, hVars, fnVars, exVars, srvVars>>

\* One operation and the headers that every request for it carries.
InitSelect ==
    /\ op \in Operations
    /\ reqIn \in [negotiator : Negotiators, prefer : Prefers]
    /\ resp = {}
    /\ ExampleIdle /\ ServerIdle /\ HandlerIdle /\ FnIdle

NextSelect == GetExampleCall

SpecSelect == InitSelect /\ [][NextSelect]_vars

(***************************************************************************)
(* Claims about the selection of the response (SpecSelect).                *)
(***************************************************************************)
\* A media type yields an example: getTypedExample returns no error.
Yields(mt) == mt.example \/ mt.examples # {} \/ mt.schema \in {"ok", "object", "inf"}

\* A response is returnable: it has no content, or one of its media types
\* passes the negotiator and yields an example.
Returnable(response) ==
    \/ ~response.hasContent
    \/ \E m \in DOMAIN response.content :
          /\ reqIn.negotiator.isNil \/ Match(reqIn.negotiator, m)
          /\ Yields(response.content[m])

HasStatusDirective == "status" \in DOMAIN reqIn.prefer

\* The one candidate under a status directive; "" if there is none.
Candidate ==
    IF reqIn.prefer["status"] \in DOMAIN op THEN reqIn.prefer["status"]
    ELSE IF "default" \in DOMAIN op THEN "default"
    ELSE ""

\* C8: with a status directive, the response declared under exactly that key
\* is the only candidate, else the default response is, else getExample
\* fails with ErrNoExample: the candidate is returned if it is returnable,
\* and no other response ever is.
C8_StatusDirectiveCandidate ==
    HasStatusDirective =>
        \A r \in resp :
            /\ r.err \in {Nil, ErrNoExample}
            /\ r.err = Nil => (Candidate # "" /\ r.key = Candidate)
            /\ r.err = Nil <=> (Candidate # "" /\ Returnable(op[Candidate]))

\* C8 witness: the status asked for is not declared, other responses that
\* could be returned are, and the default response was returned with the
\* status asked for.
C8_Witness ==
    /\ HasStatusDirective /\ reqIn.prefer["status"] = "500"
    /\ {"200", "default"} \subseteq DOMAIN op /\ Returnable(op["200"])
    /\ \E r \in resp : r.err = Nil /\ r.key = "default" /\ r.status = 500

\* C9: without a status directive, a response whose key is not a number in
\* [200,300) is returned only if no 2xx response of the operation is
\* returnable.
C9_SuccessTriedFirst ==
    ~HasStatusDirective =>
        \A r \in resp :
            (r.err = Nil /\ ~IsSuccess(r.key)) =>
                \A k \in DOMAIN op : IsSuccess(k) => ~Returnable(op[k])

\* C9 witness: two 2xx responses are declared, none is returnable, and the
\* 404 response was returned.
C9_Witness ==
    /\ ~HasStatusDirective
    /\ {"200", "201"} \subseteq DOMAIN op
    /\ \E r \in resp : r.err = Nil /\ r.key = "404" /\ r.status = 404

\* C10: two requests with the same headers for the same operation get the
\* same status code and the same media type.
C10_SelectionDeterministic ==
    \A r1, r2 \in resp : r1.status = r2.status /\ r1.mt = r2.mt

\* str is written in decimal digits.
IsNumeral(str) ==
    /\ Len(str) > 0
    /\ \A i \in 1..Len(str) :
         SubSeq(str, i, i) \in {"0", "1", "2", "3", "4", "5", "6", "7", "8", "9"}

\* The number that the digits of str stand for.
RECURSIVE NumeralValue(_)
NumeralValue(str) ==
    IF Len(str) = 0 THEN 0
    ELSE 10 * NumeralValue(SubSeq(str, 1, Len(str) - 1))
         + (CHOOSE d \in 0..9 :
              SubSeq(str, Len(str), Len(str))
                = <<"0", "1", "2", "3", "4", "5", "6", "7", "8", "9">>[d + 1])

\* C29: the status that getExample returns is the number of the key of the
\* selected response when the key is a number; the number of the status
\* directive when the key is not a number (the default response) and the
\* directive is one; and 200 in every other case.
C29_StatusOfSelected ==
    \A r \in resp :
        r.err = Nil =>
            r.status = IF IsNumeral(r.key) THEN NumeralValue(r.key)
                       ELSE IF HasStatusDirective /\ IsNumeral(reqIn.prefer["status"])
                       THEN NumeralValue(reqIn.prefer["status"])
                       ELSE 200

\* C29 witness: the request asked for the status "default", which is no
\* number, and the default response was returned with 200.
C29_Witness ==
    /\ HasStatusDirective /\ reqIn.prefer["status"] = "default"
    /\ \E r \in resp : r.err = Nil /\ r.key = "default" /\ r.status = 200

(***************************************************************************)
(* apisprout.go: handler.                                                  *)
(***************************************************************************)
HandlerMediaTypes ==
    {"application/json", "application/vnd.api+json", "text/json", "text/yaml",
     "application/x-yaml", "text/plain"}

\* marshalJSONMatcher, ^application/(vnd\..+\+)?json$, on HandlerMediaTypes.
marshalJSONMatcher(mediatype) ==
    mediatype \in {"application/json", "application/vnd.api+json"}

\* marshalYAMLMatcher, ^(application|text)/(x-|vnd\..+\+)?yaml$, on
\* HandlerMediaTypes.
marshalYAMLMatcher(mediatype) ==
    mediatype \in {"text/yaml", "application/x-yaml"}

\* The responses of the operations a request is handled for: without
\* content; one media type of each kind with a schema that gives a map; a
\* string example; a number that is +Inf; a schema on which OpenAPIExample
\* does not return; a failing media type beside a good one; media types
\* without any example; named examples.
HandlerResponseShapes ==
    {Response(FALSE, <<>>)}
    \cup {Response(TRUE, [m \in {mt} |-> MediaType(FALSE, {}, "object")]) :
            mt \in HandlerMediaTypes}
    \cup {Response(TRUE, [m \in {"text/plain"} |-> MtInline]),
          Response(TRUE, [m \in {"application/json"} |-> MediaType(FALSE, {}, "inf")]),
          Response(TRUE, [m \in {"application/json"} |-> MediaType(FALSE, {}, "panic")]),
          Response(TRUE, [m \in {"application/json", "text/plain"} |->
                             IF m = "text/plain" THEN MtInline ELSE MtBadSchema]),
          Response(TRUE, [m \in {"application/json"} |-> MtEmpty]),
          Response(TRUE, [m \in {"application/json"} |-> MtNamed])}

\* What a second, non-2xx response of the operation can be.
OtherResponseShapes ==
    {Response(FALSE, <<>>),
     Response(TRUE, [m \in {"text/plain"} |-> MtInline]),
     Response(TRUE, [m \in {"application/json"} |-> MediaType(FALSE, {}, "object")]),
     Response(TRUE, [m \in {"application/json"} |-> MtEmpty])}

\* An openapi3.HeaderRef: Value is set, and what OpenAPIExample makes of
\* its schema (as for MediaType).
Header(hasValue, schema) == [hasValue |-> hasValue, schema |-> schema]

\* The headers a response declares: one of each kind; one with a string
\* schema; one on whose schema OpenAPIExample does not return.
HeaderMaps ==
    {("X-String" :> Header(TRUE, "ok")) @@ ("X-Object" :> Header(TRUE, "object"))
        @@ ("X-Err" :> Header(TRUE, "err")) @@ ("X-NoSchema" :> Header(TRUE, "nil"))
        @@ ("X-NoValue" :> Header(FALSE, "nil")),
     "X-String" :> Header(TRUE, "ok"),
     "X-Panic" :> Header(TRUE, "panic")}

WithHeaders(response, headers) == [response EXCEPT !.headers = headers]

\* route.Operation: a 200 response, a 404 response or both; a 200 response
\* that declares headers.
HandlerOperations ==
    {[k \in {"200"} |-> r] : r \in HandlerResponseShapes}
    \cup {[k \in {"200"} |-> WithHeaders(r, h)] :
            r \in {Response(FALSE, <<>>),
                    Response(TRUE, [m \in {"text/plain"} |-> MtInline]),
                    Response(TRUE, [m \in {"application/json"} |->
                                       MediaType(FALSE, {}, "object")])},
            h \in HeaderMaps}
    \cup {[k \in {"404"} |-> r] : r \in OtherResponseShapes}
    \cup {[k \in {"200", "404"} |-> IF k = "200" THEN r[1] ELSE r[2]] :
            r \in HandlerResponseShapes \X OtherResponseShapes}

\* The Accept header, split at the commas, each entry a media range and
\* its parameters; <<>> is no header.
AcceptHeaders ==
    {<<>>,
     <<[media |-> "*/*", params |-> ""]>>,
     <<[media |-> "application/json", params |-> ""]>>,
     <<[media |-> "text/*", params |-> "q=0.9"], [media |-> "application/x-yaml", params |-> "q=0.8"]>>}

\* NewContentNegotiator: mime.ParseMediaType drops the parameters of each
\* entry, and what is left is compiled into a glob.
NewContentNegotiator(accept) ==
    Negotiator(FALSE, {accept[i].media : i \in DOMAIN accept})

\* parsePreferHeader(req.Header.Get("Prefer")), by its result.
HandlerPrefers ==
    {<<>>, [k \in {"status"} |-> "404"], [k \in {"example"} |-> "e1"]}

\* The request and the options: the method, --disable-cors,
\* --validate-request, and the Accept and Prefer headers.
HandlerRequests ==
    [method : {"GET", "OPTIONS"}, disableCors : BOOLEAN, validateRequest : BOOLEAN,
     accept : AcceptHeaders, prefer : HandlerPrefers]

\* A body written with w.Write: a text as it is, or a value encoded as
\* JSON or YAML.
Body(enc, val) == [enc |-> enc, val |-> val]
NoBody == Body("none", NilVal)

\* The ResponseWriter: the status of WriteHeader (0: not called), how often
\* it was called, the Content-Type header and the body.
Writer(status, writes, contentType, body) ==
    [status |-> status, writes |-> writes, contentType |-> contentType, body |-> body,
     headers |-> <<>>]


\* w.WriteHeader(status); w.Write(body); return
Answer(status, contentType, body) ==
    /\ w' = Writer(status, w.writes + 1, contentType, body)
    /\ hpc' = "done"

\* handler, 1260-1290: the CORS headers; a pre-flight OPTIONS request is
\* answered here, with the headers only.
HandlerCors ==
    /\ hpc = "start"
    /\ IF ~hreq.disableCors /\ hreq.method = "OPTIONS"
       THEN hpc' = "preflight"
       ELSE hpc' = "route"
    /\ UNCHANGED <<op, reqIn, resp, hreq, sel, w, stages, fnVars, exVars, srvVars>>

\* handler, 1313-1318: the route is looked up; 404 without a route.
HandlerFindRoute ==
    /\ hpc = "route"
    /\ stages' = stages \cup {"route"}
    /\ \E found \in BOOLEAN :
         IF found THEN hpc' = "validate" /\ UNCHANGED w
         ELSE Answer(404, "", NoBody)
    /\ UNCHANGED <<op, reqIn, resp, hreq, sel, fnVars, exVars, srvVars>>

\* handler, 1320-1357: with --validate-request the request is validated;
\* 400 and the error when it is not valid.
HandlerValidate ==
    /\ hpc = "validate"
    /\ IF hreq.validateRequest
       THEN /\ stages' = stages \cup {"validate"}
            /\ \E valid \in BOOLEAN :
                 IF valid THEN hpc' = "example" /\ UNCHANGED w
                 ELSE Answer(400, "", Body("raw", StrVal("validation error")))
       ELSE hpc' = "example" /\ UNCHANGED <<w, stages>>
    /\ UNCHANGED <<op, reqIn, resp, hreq, sel, fnVars, exVars, srvVars>>

\* The media types that the operation's responses declare.
DeclaredMediaTypes(operation) ==
    UNION {DOMAIN operation[k].content : k \in DOMAIN operation}

\* handler, 1359-1375: the negotiator of the Accept header, the Prefer
\* header, getExample; 418 when it returns an error.  When OpenAPIExample
\* panics the handler is left without an answer.
HandlerGetExample ==
    /\ hpc = "example"
    /\ stages' = stages \cup {"example"}
    /\ LET negotiator == IF hreq.accept = <<>> THEN Negotiator(TRUE, {})
                         ELSE NewContentNegotiator(hreq.accept)
       IN \E order \in (IF mapContainsKey(hreq.prefer, "status") THEN {<<>>}
                        ELSE RangeOrders(DOMAIN op)),
             mtOrder \in RangeOrders(DeclaredMediaTypes(op)),
             selected \in ExampleNames :
            LET r == getExample(negotiator, hreq.prefer, op, order, mtOrder, selected)
            IN IF r.err = Panic
               THEN hpc' = "panicked" /\ UNCHANGED <<sel, w>>
               ELSE IF r.err # Nil
               THEN /\ Answer(418, "", Body("raw", StrVal("No example available.")))
                    /\ sel' = r
               ELSE /\ sel' = r
                    /\ hpc' = "encode"
                    /\ UNCHANGED w
    /\ UNCHANGED <<op, reqIn, resp, hreq, fnVars, exVars, srvVars>>

\* An encoder that returns no error.
MarshalNeverFails(enc, val) == FALSE

\* json.MarshalIndent returns an error for a value that JSON cannot hold;
\* yaml.Marshal writes +Inf as .inf.
MarshalFails(enc, val) == enc = "json" /\ val = InfVal

\* The headers that getExample returned: those of the response sel.headers
\* names, or blankHeaders.
ReturnedHeaders ==
    IF sel.headers = "blank" THEN <<>> ELSE op[sel.headers].headers

\* handler, 1407-1423: the value each header with a Value is set to: the
\* example of its schema if OpenAPIExample returns one that is a string,
\* else the name of the header.
HeaderValues(headers) ==
    [name \in {n \in DOMAIN headers : headers[n].hasValue} |->
        LET ex == SchemaOutcome(headers[name].schema)
        IN IF headers[name].schema # "nil" /\ ex.err = Nil /\ ex.val.kind = "string"
           THEN ex.val.v
           ELSE name]

\* handler, 1384-1430: a string is sent as it is, any other example is
\* encoded by the media type; 500 when there is no encoder or it fails;
\* else the headers, the Content-Type (if there is a media type), the
\* status and the body are written.  When OpenAPIExample panics on the
\* schema of a header the handler is left without an answer.
HandlerEncode ==
    /\ hpc = "encode"
    /\ stages' = stages \cup {"encode"}
    /\ LET enc == IF sel.example.kind = "string" THEN "raw"
                  ELSE IF marshalJSONMatcher(sel.mt) THEN "json"
                  ELSE IF marshalYAMLMatcher(sel.mt) THEN "yaml"
                  ELSE "none"
       IN IF enc = "none" \/ MarshalFails(enc, sel.example)
          THEN Answer(500, "", Body("raw", StrVal("Unable to marshal response")))
          ELSE IF \E n \in DOMAIN ReturnedHeaders :
                     /\ ReturnedHeaders[n].hasValue
                     /\ ReturnedHeaders[n].schema = "panic"
          THEN hpc' = "panicked" /\ UNCHANGED w
          ELSE /\ w' = [Writer(sel.status, w.writes + 1, sel.mt, Body(enc, sel.example))
                          EXCEPT !.headers = HeaderValues(ReturnedHeaders)]
               /\ hpc' = "done"
    /\ UNCHANGED <<op, reqIn, resp, hreq, sel, fnVars, exVars, srvVars>>

\* One request for an operation.
InitHandler ==
    /\ op \in HandlerOperations
    /\ hreq \in HandlerRequests
    /\ hpc = "start"
    /\ sel = Result(0, "", "blank", NilVal, Nil, "")
    /\ w = Writer(0, 0, "", NoBody)
    /\ stages = {}
    /\ reqIn = <<>> /\ resp = {}
    /\ ExampleIdle /\ ServerIdle /\ FnIdle

NextHandler ==
    \/ HandlerCors
    \/ HandlerFindRoute
    \/ HandlerValidate
    \/ HandlerGetExample
    \/ HandlerEncode

SpecHandler == InitHandler /\ [][NextHandler]_vars

(***************************************************************************)
(* Claims about the handler (SpecHandler).                                 *)
(***************************************************************************)
\* The Accept header lets a media type pass: there is no header, or one of
\* its entries, without parameters, matches.
Passes(mediatype) ==
    \/ hreq.accept = <<>>
    \/ \E i \in DOMAIN hreq.accept : GlobMatch(hreq.accept[i].media, mediatype)

\* A response of the handled operation is returnable.
HReturnable(response) ==
    \/ ~response.hasContent
    \/ \E m \in DOMAIN response.content : Passes(m) /\ Yields(response.content[m])

\* The candidate responses of the handled request.
HCandidates ==
    IF "status" \in DOMAIN hreq.prefer
    THEN IF hreq.prefer["status"] \in DOMAIN op THEN {hreq.prefer["status"]}
         ELSE IF "default" \in DOMAIN op THEN {"default"}
         ELSE {}
    ELSE DOMAIN op

\* getExample has returned to the handler.
Selected == "example" \in stages /\ hpc \in {"encode", "done"}

\* C11: a failure of getTypedExample for one media type is recoverable:
\* getExample returns ErrNoExample, and the handler answers 418, exactly
\* when no candidate response is returnable; when one is, the response
\* returned is a returnable one.
C11_FailureIsRecoverable ==
    Selected =>
        /\ sel.err \in {Nil, ErrNoExample}
        /\ sel.err = ErrNoExample <=> \A k \in HCandidates : ~HReturnable(op[k])
        /\ sel.err = Nil => (sel.key \in HCandidates /\ HReturnable(op[sel.key]))
        /\ (hpc = "done" /\ w.status = 418) <=> sel.err = ErrNoExample

\* C11 witness: the 200 response has a media type that passes the Accept
\* header and fails in getTypedExample, and the 404 response, tried after
\* it, was returned.
C11_Witness ==
    /\ Selected /\ hpc = "done" /\ sel.err = Nil /\ sel.key = "404" /\ w.status = 404
    /\ "status" \notin DOMAIN hreq.prefer
    /\ "200" \in DOMAIN op /\ op["200"].hasContent
    /\ \E m \in DOMAIN op["200"].content : Passes(m)

\* A candidate response that getExample reaches: the responses tried
\* before it (of the handled operations, the 200 response before the 404
\* response) are not returnable.
Reached(k) ==
    /\ k \in HCandidates
    /\ k = "200" \/ "200" \notin HCandidates \/ ~HReturnable(op["200"])

\* C12: a response without content that getExample reaches is returned at
\* once as a success, with its status, no media type and an empty body,
\* whatever the Accept header is; the handler sends that status, an empty
\* body and no Content-Type.
C12_NoContentReturned ==
    Selected =>
        \A k \in DOMAIN op :
            (Reached(k) /\ ~op[k].hasContent) =>
                /\ sel.err = Nil /\ sel.key = k
                /\ sel.status = Atoi(k).n /\ sel.mt = "" /\ sel.example = StrVal("")
                /\ hpc = "done" =>
                      /\ w.status = sel.status /\ w.writes = 1
                      /\ w.contentType = "" /\ w.body = Body("raw", StrVal(""))

\* C12 witness: the request accepts application/json only, the 200 response
\* has content that yields nothing, and the 404 response, without content,
\* was sent.
C12_Witness ==
    /\ hpc = "done" /\ Selected
    /\ Len(hreq.accept) = 1 /\ hreq.accept[1].media = "application/json"
    /\ DOMAIN op = {"200", "404"} /\ op["200"].hasContent /\ ~op["404"].hasContent
    /\ sel.key = "404" /\ w.status = 404 /\ w.contentType = ""

\* C13: every successful selection respects the Accept header: the media
\* type of a returned response with content is declared by that response
\* and passes the header; without an Accept header no declared media type
\* is skipped: a reached response with a media type that yields an example
\* is returned.
C13_NegotiationRespected ==
    Selected =>
        /\ (sel.err = Nil /\ sel.mt # "") =>
              /\ sel.mt \in DOMAIN op[sel.key].content
              /\ Passes(sel.mt)
        /\ hreq.accept = <<>> =>
              \A k \in DOMAIN op :
                  (/\ Reached(k)
                   /\ \E m \in DOMAIN op[k].content : Yields(op[k].content[m]))
                      => (sel.err = Nil /\ sel.key = k)

\* C13 witness: the Accept header has entries with parameters, the 200
\* response declares only a media type that yields an example and does not
\* pass, and the text/plain of the 404 response was sent.
C13_Witness ==
    /\ hpc = "done" /\ Selected /\ sel.err = Nil
    /\ hreq.accept # <<>> /\ hreq.accept[1].params # ""
    /\ "200" \in DOMAIN op
    /\ \E m \in DOMAIN op["200"].content : Yields(op["200"].content[m]) /\ ~Passes(m)
    /\ sel.key = "404" /\ sel.mt = "text/plain" /\ w.contentType = "text/plain"

\* C16: every request that is not a pre-flight request is answered with
\* exactly one outcome, decided in the order 404 (no route), 400 (validation
\* failed), 418 (no example), 500 (not encodable), selected status, and no
\* later stage is evaluated after a stage has failed.
C16_OneOutcomeInOrder ==
    /\ hpc # "panicked"
    /\ w.writes <= 1
    /\ hpc = "done" =>
         /\ w.writes = 1
         /\ "example" \notin stages =>
              \/ stages = {"route"} /\ w.status = 404
              \/ stages = {"route", "validate"} /\ w.status = 400
         /\ ("example" \in stages /\ "encode" \notin stages) =>
              w.status = 418 /\ sel.err = ErrNoExample
         /\ "encode" \in stages =>
              sel.err = Nil /\ w.status \in {500, sel.status}

\* The handler has encoded, or failed to encode, an example that is not a
\* string.
EncodedValue == hpc = "done" /\ "encode" \in stages /\ sel.example.kind # "string"

\* The answer for an example that could not be encoded.
MarshalError ==
    /\ w.status = 500 /\ w.contentType = ""
    /\ w.body = Body("raw", StrVal("Unable to marshal response"))

\* The answer with the selected status and the encoded example.
SelectedAnswer(enc) ==
    /\ w.status = sel.status /\ w.contentType = sel.mt
    /\ w.body = Body(enc, sel.example)

JSONTypes == {"application/json", "application/vnd.api+json"}
YAMLTypes == {"text/yaml", "application/x-yaml"}

SelectionAnswered ==
    hpc = "done" /\ "encode" \in stages /\ sel.err = Nil /\ w.status # 500

\* C22: for every selection that is answered, also one of a response without
\* content, every header the selected response declares is set on the
\* answer, to the example that OpenAPIExample makes of the header's schema.
C22_DeclaredHeadersSet ==
    SelectionAnswered =>
        \A name \in DOMAIN op[sel.key].headers :
            /\ name \in DOMAIN w.headers
            /\ LET ex == SchemaOutcome(op[sel.key].headers[name].schema)
               IN ex.err = Nil /\ w.headers[name] = ex.val.v

(***************************************************************************)
(* getTypedExample by itself (SpecTyped).                                  *)
(***************************************************************************)
\* The media type entries: with and without Example, with any of the named
\* examples, with and without a schema.
TypedMediaTypes ==
    [example : BOOLEAN, examples : SUBSET ExampleNames,
     schema : {"nil", "ok", "err", "panic"}]

\* The Prefer header: none, an example directive that names e1, e2 or an
\* example that no media type has, a status directive.
TypedPrefers ==
    {<<>>, [k \in {"status"} |-> "200"]}
    \cup {[k \in {"example"} |-> e] : e \in ExampleNames \cup {"zz"}}

\* getTypedExample(mt, prefer) is called, any number of times.
GetTypedExampleCall ==
    /\ \E selected \in ExampleNames :
         ret' = ret \cup {getTypedExample(args.mt, args.prefer, selected)}
    /\ UNCHANGED <<args, op, reqIn, resp, hVars, exVars, srvVars>>

InitTyped ==
    /\ args \in [mt : TypedMediaTypes, prefer : TypedPrefers]
    /\ ret = {}
    /\ op = <<>> /\ reqIn = <<>> /\ resp = {}
    /\ ExampleIdle /\ ServerIdle /\ HandlerIdle

NextTyped == GetTypedExampleCall

SpecTyped == InitTyped /\ [][NextTyped]_vars

\* C14: for a media type with named examples and no inline example,
\* getTypedExample returns the value of the example that the example
\* directive names, when it names a declared one, and else the value of one
\* of the declared examples; the schema is not consulted (the call returns
\* a value whatever the schema is).
C14_NamedExampleReturned ==
    (~args.mt.example /\ args.mt.examples # {}) =>
        \A r \in ret :
            /\ r.err = Nil
            /\ \E e \in args.mt.examples : r.val = StrVal(e)
            /\ ("example" \in DOMAIN args.prefer
                /\ args.prefer["example"] \in args.mt.examples)
                  => r.val = StrVal(args.prefer["example"])

\* C14 witness: both examples are declared beside a schema on which
\* OpenAPIExample would not return, the directive names e2 and every call
\* returned e2.
C14_Witness ==
    /\ ~args.mt.example /\ args.mt.examples = ExampleNames
    /\ args.mt.schema = "panic"
    /\ "example" \in DOMAIN args.prefer /\ args.prefer["example"] = "e2"
    /\ ret = {Ok(StrVal("e2"))}

(***************************************************************************)
(* apisprout.go: parsePreferHeader, on strings as sequences of characters. *)
(***************************************************************************)
Quote == "\""

\* splitRegex, (,|;| )
IsSeparator(c) == c \in {",", ";", " "}

IsDigit(c) == c \in {"0", "1", "2", "3", "4", "5", "6", "7", "8", "9"}

\* The position of the first c in str at or after i; 0 if there is none.
RECURSIVE IndexFrom(_, _, _)
IndexFrom(str, c, i) ==
    IF i > Len(str) THEN 0
    ELSE IF str[i] = c THEN i
    ELSE IndexFrom(str, c, i + 1)

\* quotedRegex.FindAllString(value, -1), "[^"]*": the quoted strings from
\* position i on, from left to right, none overlapping another.
RECURSIVE FindAllQuoted(_, _)
FindAllQuoted(str, i) ==
    LET open == IndexFrom(str, Quote, i)
        close == IF open = 0 THEN 0 ELSE IndexFrom(str, Quote, open + 1)
    IN IF close = 0 THEN <<>>
       ELSE <<SubSeq(str, open, close)>> \o FindAllQuoted(str, close + 1)

\* old is in str at position i.
OccursAt(str, old, i) ==
    /\ i + Len(old) - 1 <= Len(str)
    /\ SubSeq(str, i, i + Len(old) - 1) = old

\* strings.Index(str, old): the first position of old in str at or after i;
\* 0 if there is none.
RECURSIVE Index(_, _, _)
Index(str, old, i) ==
    IF i + Len(old) - 1 > Len(str) THEN 0
    ELSE IF OccursAt(str, old, i) THEN i
    ELSE Index(str, old, i + 1)

\* strings.Replace(str, old, new, 1)
Replace(str, old, new) ==
    LET i == Index(str, old, 1)
    IN IF i = 0 THEN str
       ELSE SubSeq(str, 1, i - 1) \o new \o SubSeq(str, i + Len(old), Len(str))

\* fmt.Sprintf("%%%%%v%%%%", idx), for an index below ten.
Placeholder(idx) ==
    <<"%", "%", <<"0", "1", "2", "3", "4", "5", "6", "7", "8", "9">>[idx + 1], "%", "%">>

\* 1220-1225: every quoted string is replaced by its placeholder.
RECURSIVE ReplaceQuoted(_, _, _)
ReplaceQuoted(value, quotedStrings, idx) ==
    IF idx >= Len(quotedStrings) THEN value
    ELSE ReplaceQuoted(Replace(value, quotedStrings[idx + 1], Placeholder(idx)),
                       quotedStrings, idx + 1)

\* splitRegex.Split(value, -1) from position i on; cur is the piece begun.
RECURSIVE Split(_, _, _)
Split(str, i, cur) ==
    IF i > Len(str) THEN <<cur>>
    ELSE IF IsSeparator(str[i]) THEN <<cur>> \o Split(str, i + 1, <<>>)
    ELSE Split(str, i + 1, Append(cur, str[i]))

\* strings.Trim(str, cutset) for a cutset of one character.
RECURSIVE Trim(_, _)
Trim(str, c) ==
    IF str = <<>> THEN str
    ELSE IF str[1] = c THEN Trim(Tail(str), c)
    ELSE IF str[Len(str)] = c THEN Trim(SubSeq(str, 1, Len(str) - 1), c)
    ELSE str

\* strings.TrimSpace, for strings whose only white space is the space.
TrimSpace(str) == Trim(str, " ")

\* The position after the digits that begin at i.
RECURSIVE DigitsEnd(_, _)
DigitsEnd(str, i) ==
    IF i <= Len(str) /\ IsDigit(str[i]) THEN DigitsEnd(str, i + 1) ELSE i

\* wilcardRegex.FindAllStringSubmatch(pair, -1), %%([0-9]+)%%: the matches
\* from position i on, each with its digits.
RECURSIVE FindAllWildcards(_, _)
FindAllWildcards(pair, i) ==
    IF i > Len(pair) THEN <<>>
    ELSE LET j == DigitsEnd(pair, i + 2)
         IN IF /\ OccursAt(pair, <<"%", "%">>, i)
               /\ j > i + 2
               /\ OccursAt(pair, <<"%", "%">>, j)
            THEN <<[all |-> SubSeq(pair, i, j + 1), digits |-> SubSeq(pair, i + 2, j - 1)]>>
                 \o FindAllWildcards(pair, j + 2)
            ELSE FindAllWildcards(pair, i + 1)

DigitValue(c) ==
    CASE c = "0" -> 0 [] c = "1" -> 1 [] c = "2" -> 2 [] c = "3" -> 3 [] c = "4" -> 4
      [] c = "5" -> 5 [] c = "6" -> 6 [] c = "7" -> 7 [] c = "8" -> 8 [] OTHER -> 9

\* strconv.Atoi of a string of digits.
RECURSIVE AtoiDigits(_)
AtoiDigits(digits) ==
    IF digits = <<>> THEN 0
    ELSE 10 * AtoiDigits(SubSeq(digits, 1, Len(digits) - 1)) + DigitValue(digits[Len(digits)])

\* 1232-1236: the wildcards of a pair are replaced by the quoted strings of
\* their numbers.  quotedStrings[quotedIdx] panics when the number is not
\* the index of a quoted string.
RECURSIVE PutBack(_, _, _, _)
PutBack(pair, wildcardStrings, k, quotedStrings) ==
    IF k > Len(wildcardStrings) THEN [panic |-> FALSE, pair |-> pair]
    ELSE LET quotedIdx == AtoiDigits(wildcardStrings[k].digits)
         IN IF quotedIdx >= Len(quotedStrings) THEN [panic |-> TRUE, pair |-> pair]
            ELSE PutBack(Replace(pair, wildcardStrings[k].all, quotedStrings[quotedIdx + 1]),
                         wildcardStrings, k + 1, quotedStrings)

\* 1239-1244: the key and the value of a pair.
SetPair(prefer, pair) ==
    LET eqIdx == IndexFrom(pair, "=", 1)
    IN IF eqIdx # 0
       THEN MapSet(prefer, SubSeq(pair, 1, eqIdx - 1),
                   Trim(SubSeq(pair, eqIdx + 1, Len(pair)), Quote))
       ELSE MapSet(prefer, pair, <<>>)

\* 1228-1246: the loop over the pairs, from pair k on.
RECURSIVE ParsePairs(_, _, _, _)
ParsePairs(pairs, k, quotedStrings, prefer) ==
    IF k > Len(pairs) THEN [panic |-> FALSE, prefer |-> prefer]
    ELSE LET pair == TrimSpace(pairs[k])
             back == PutBack(pair, FindAllWildcards(pair, 1), 1, quotedStrings)
         IN IF pair = <<>> THEN ParsePairs(pairs, k + 1, quotedStrings, prefer)
            ELSE IF back.panic THEN [panic |-> TRUE, prefer |-> prefer]
            ELSE ParsePairs(pairs, k + 1, quotedStrings, SetPair(prefer, back.pair))

\* A parser that splits the header without setting the quoted strings aside.
parsePreferHeaderSplitsQuoted(value) ==
    ParsePairs(Split(value, 1, <<>>), 1, <<>>, <<>>)

\* parsePreferHeader: the map, or that the call panicked.
parsePreferHeader(value) ==
    IF value = <<>> THEN [panic |-> FALSE, prefer |-> <<>>]
    ELSE LET quotedStrings == FindAllQuoted(value, 1)
         IN ParsePairs(Split(ReplaceQuoted(value, quotedStrings, 0), 1, <<>>), 1,
                       quotedStrings, <<>>)

\* The pieces headers are made of: a bare key, a directive, directives with
\* quoted values that hold separators, the separators, a quote without its
\* partner, a placeholder written by the client.
HeaderPieces ==
    {<<"a">>, <<"b", "=", "1">>,
     <<"c", "=", Quote, "x", " ", "y", Quote>>,
     <<"d", "=", Quote, ";", Quote>>,
     <<",">>, <<";">>, <<" ">>,
     <<Quote>>,
     <<"%", "%", "0", "%", "%">>}

\* pieces of a header
MaxPieces == 3

RECURSIVE Concat(_)
Concat(pieces) ==
    IF pieces = <<>> THEN <<>> ELSE Head(pieces) \o Concat(Tail(pieces))

\* The Prefer headers: up to MaxPieces pieces in a row.
Headers ==
    {Concat(q) : q \in UNION {[1..n -> HeaderPieces] : n \in 0..MaxPieces}}

\* parsePreferHeader(value) is called.
ParsePreferHeaderCall ==
    /\ ret = {}
    /\ ret' = {parsePreferHeader(args)}
    /\ UNCHANGED <<args, op, reqIn, resp, hVars, exVars, srvVars>>

InitPrefer ==
    /\ args \in Headers
    /\ ret = {}
    /\ op = <<>> /\ reqIn = <<>> /\ resp = {}
    /\ ExampleIdle /\ ServerIdle /\ HandlerIdle

NextPrefer == ParsePreferHeaderCall

SpecPrefer == InitPrefer /\ [][NextPrefer]_vars

\* ---- claims about parsePreferHeader ----

\* Position i of str lies within a quoted string (the quotes included).
RECURSIVE InQuoted(_, _, _)
InQuoted(str, i, from) ==
    LET open == IndexFrom(str, Quote, from)
        close == IF open = 0 THEN 0 ELSE IndexFrom(str, Quote, open + 1)
    IN IF close = 0 THEN FALSE
       ELSE IF open <= i /\ i <= close THEN TRUE
       ELSE InQuoted(str, i, close + 1)

\* The separators of str that stand outside its quoted strings.
OutsideSeparators(str) ==
    {i \in 1..Len(str) : IsSeparator(str[i]) /\ ~InQuoted(str, i, 1)}

Separators == {",", ";", " "}

\* str with another separator at i, with a run of separators at i, with a
\* trailing separator.
SeparatorVariants(str) ==
    {[str EXCEPT ![i] = c] : i \in OutsideSeparators(str), c \in Separators}
    \cup {SubSeq(str, 1, i) \o <<c>> \o SubSeq(str, i + 1, Len(str)) :
            i \in OutsideSeparators(str), c \in Separators}
    \cup {str \o <<c>> : c \in Separators}

\* The characters of a plain key: no separator, quote, "=" or "%".
PlainChars(str) ==
    \A i \in 1..Len(str) :
        ~IsSeparator(str[i]) /\ str[i] \notin {Quote, "=", "%"}

\* str is key="body", the body without quote and percent sign.
IsQuotedDirective(str) ==
    LET eq == IndexFrom(str, "=", 1)
    IN /\ eq > 1
       /\ Len(str) >= eq + 2
       /\ PlainChars(SubSeq(str, 1, eq - 1))
       /\ str[eq + 1] = Quote
       /\ str[Len(str)] = Quote
       /\ \A i \in (eq + 2)..(Len(str) - 1) : str[i] \notin {Quote, "%"}

QuotedDirectiveMap(str) ==
    LET eq == IndexFrom(str, "=", 1)
    IN SubSeq(str, 1, eq - 1) :> SubSeq(str, eq + 2, Len(str) - 1)

\* C15: the separators comma, semicolon and space are interchangeable outside
\* quoted strings, a run of them and a trailing one change nothing; a quoted
\* value keeps the separators within it and loses only the quotes around it;
\* a key without "=" maps to the empty string.
C15_SeparatorsInterchangeable ==
    \A r \in ret :
        /\ \A v \in SeparatorVariants(args) : parsePreferHeader(v) = r
        /\ IsQuotedDirective(args) =>
             /\ ~r.panic
             /\ r.prefer = QuotedDirectiveMap(args)
        /\ (args /= <<>> /\ PlainChars(args)) =>
             /\ ~r.panic
             /\ r.prefer = (args :> <<>>)

\* C15 witness: a;c="x y" was parsed to the bare key and the unquoted value.
C15_Witness ==
    /\ args = <<"a", ";", "c", "=", Quote, "x", " ", "y", Quote>>
    /\ ret = {[panic |-> FALSE,
               prefer |-> (<<"a">> :> <<>>) @@ (<<"c">> :> <<"x", " ", "y">>)]}

\* The header holds a placeholder %%0%% outside its quoted strings: one
\* the client wrote.
ClientPlaceholder(str) ==
    \E i \in 1..Len(str) : OccursAt(str, Placeholder(0), i) /\ ~InQuoted(str, i, 1)

\* C28: parsePreferHeader is total: for every header, also one with a
\* placeholder %%<digits>%% outside quotes or with a quote without partner,
\* it returns a map and does not panic, and a placeholder the client wrote
\* is not replaced by quoted content: it is still in a key or a value.
C28_TotalAndPlaceholderKept ==
    \A r \in ret :
        /\ ~r.panic
        /\ ClientPlaceholder(args) =>
             \E k \in DOMAIN r.prefer :
                 \/ Index(k, Placeholder(0), 1) # 0
                 \/ Index(r.prefer[k], Placeholder(0), 1) # 0

(***************************************************************************)
(* example.go: the number rules by themselves (SpecNumber).                *)
(***************************************************************************)
\* The bounds drawn: -2, -1, 0, 1, 5 and 5.5.
NumberValues == {-2 * Unit, -Unit, 0, Unit, 5 * Unit, 5 * Unit + Unit \div 2}

\* The multipleOf drawn: none, 0.5 and 4.
MultipleOfValues == {NilPtr, Ptr(Unit \div 2), Ptr(4 * Unit)}

\* The number and integer schemas without example, default and enum.
NumberSchemas ==
    {NumberSchema(t, min, max, exclusiveMin, exclusiveMax, multipleOf) :
        t \in {"number", "integer"},
        min \in {NilPtr} \cup {Ptr(v) : v \in NumberValues},
        max \in {NilPtr} \cup {Ptr(v) : v \in NumberValues},
        exclusiveMin \in BOOLEAN, exclusiveMax \in BOOLEAN,
        multipleOf \in MultipleOfValues}

\* OpenAPIExample(mode, schema) is called for a number or integer schema.
NumberExampleCall ==
    /\ ret = {}
    /\ ret' = {NumberExample(args)}
    /\ UNCHANGED <<args, op, reqIn, resp, hVars, exVars, srvVars>>

InitNumber ==
    /\ args \in NumberSchemas
    /\ ret = {}
    /\ op = <<>> /\ reqIn = <<>> /\ resp = {}
    /\ ExampleIdle /\ ServerIdle /\ HandlerIdle

NextNumber == NumberExampleCall

SpecNumber == InitNumber /\ [][NextNumber]_vars

\* The midpoint of [minimum, maximum].
Midpoint(schema) == (schema.Min.v + schema.Max.v) \div 2

\* The value after the minimum rule: 0, or the minimum above 0, or, when it
\* is exclusive, the midpoint if there is a maximum and minimum + 1 if not.
AfterMinimum(schema) ==
    CASE schema.Min.nil \/ schema.Min.v <= 0 -> 0
      [] OTHER ->
           CASE ~schema.ExclusiveMin -> schema.Min.v
             [] schema.ExclusiveMin /\ ~schema.Max.nil -> Midpoint(schema)
             [] OTHER -> schema.Min.v + Unit

\* The value after the maximum rule: the value so far, or the maximum below
\* it, or, when it is exclusive, the midpoint if there is a minimum and
\* maximum - 1 if not.
AfterMaximum(schema) ==
    CASE schema.Max.nil \/ schema.Max.v >= AfterMinimum(schema) -> AfterMinimum(schema)
      [] OTHER ->
           CASE ~schema.ExclusiveMax -> schema.Max.v
             [] schema.ExclusiveMax /\ ~schema.Min.nil -> Midpoint(schema)
             [] OTHER -> schema.Max.v - Unit

\* The whole part of a number, in quarters.
WholePart(v) == IF v >= 0 THEN v - (v % Unit) ELSE -((-v) - ((-v) % Unit))

\* The three examples of the rules, for a number schema.
NumberRuleExamples ==
    /\ NumberExample(NumberSchema("number", Ptr(5 * Unit), NilPtr, TRUE, FALSE, NilPtr))
         = NumVal(6 * Unit)
    /\ NumberExample(NumberSchema("number", Ptr(5 * Unit), Ptr(5 * Unit + Unit \div 2),
                                  TRUE, FALSE, NilPtr))
         = NumVal(5 * Unit + Unit \div 4)
    /\ NumberExample(NumberSchema("number", NilPtr, Ptr(-Unit), FALSE, TRUE, NilPtr))
         = NumVal(-2 * Unit)

\* C20 as stated: for a number or integer schema without multipleOf the
\* result is the value of the minimum rule followed by the maximum rule.
C20_NumberRules ==
    \A r \in ret : args.MultipleOf.nil => r = NumVal(AfterMaximum(args))

\* C20: for a schema without multipleOf the value of the minimum rule
\* followed by the maximum rule is the result of a number schema; the result
\* of an integer schema is that value without its fractional part.  The
\* examples {min 5, exclusive}, {min 5, max 5.5, exclusiveMin} and
\* {max -1, exclusive} give 6, 5.25 and -2 for a number schema.
C20_NumberRulesThenInt ==
    /\ \A r \in ret :
         args.MultipleOf.nil =>
            /\ args.Type = "number" => r = NumVal(AfterMaximum(args))
            /\ args.Type = "integer" => r = NumVal(WholePart(AfterMaximum(args)))
    /\ ret # {} => NumberRuleExamples

\* C20 witness: the integer schema {min 5, max 5.5, exclusiveMin} gave 5,
\* the whole part of the midpoint 5.25.
C20_Witness ==
    /\ args = NumberSchema("integer", Ptr(5 * Unit), Ptr(5 * Unit + Unit \div 2),
                           TRUE, FALSE, NilPtr)
    /\ ret = {NumVal(5 * Unit)}

\* The smallest multiple of m (m > 0) that is not below v.
NextMultiple(v, m) == v + ((m - (v % m)) % m)

\* C25: with multipleOf set, the result is the smallest multiple of
\* multipleOf that is not below the value of the minimum and maximum rules
\* (that value itself when it is a multiple), for positive, zero and
\* negative values; an integer schema returns it as an integer.
C25_RoundsUpToMultiple ==
    \A r \in ret :
        ~args.MultipleOf.nil =>
            /\ r.kind = "number"
            /\ args.Type = "number" =>
                 r.v = NextMultiple(AfterMaximum(args), args.MultipleOf.v)
            /\ args.Type = "integer" =>
                 r.v = WholePart(NextMultiple(AfterMaximum(args), args.MultipleOf.v))

\* A number is valid for a number or integer schema.
ValidNumber(v, schema) ==
    /\ schema.Type = "integer" => v % Unit = 0
    /\ schema.Min.nil \/ v > schema.Min.v \/ (v = schema.Min.v /\ ~schema.ExclusiveMin)
    /\ schema.Max.nil \/ v < schema.Max.v \/ (v = schema.Max.v /\ ~schema.ExclusiveMax)
    /\ schema.MultipleOf.nil \/ v % schema.MultipleOf.v = 0

\* C30: when some number is valid for the schema, the call returns a valid
\* one: within the bounds, strictly where they are exclusive, and a
\* multiple of multipleOf; it never divides by zero.
C30_SynthesizedNumberValid ==
    \A r \in ret :
        /\ r.kind # "panic"
        /\ (\E v \in (-4 * Unit)..(10 * Unit) : ValidNumber(v, args)) =>
              ValidNumber(r.v, args)

(***************************************************************************)
(* example.go: the string rules by themselves (SpecString).                *)
(***************************************************************************)
\* The string schemas without example, default and enum: a known format, an
\* unknown one or none, minLength from 0 to beyond the longest string, and
\* maxLength unset, 0, below, at and above the lengths reached by doubling.
StringSchemas ==
    {StringSchema(format, minLength, maxLength) :
        format \in {"", "date", "custom"},
        minLength \in {0, 1, 6, 7, 10, 12, 13, 24, 25, 2 * MaxStringLen},
        maxLength \in {NilPtr} \cup {Ptr(v) : v \in {0, 5, 6, 10, 12, 20, 30}}}

\* OpenAPIExample(mode, schema) is called for a string schema.
StringExampleCall ==
    /\ ret = {}
    /\ ret' = {StringExample(args)}
    /\ UNCHANGED <<args, op, reqIn, resp, hVars, exVars, srvVars>>

InitString ==
    /\ args \in StringSchemas
    /\ ret = {}
    /\ op = <<>> /\ reqIn = <<>> /\ resp = {}
    /\ ExampleIdle /\ ServerIdle /\ HandlerIdle

NextString == StringExampleCall

SpecString == InitString /\ [][NextString]_vars

\* "string" repeated until it is at least n long.
RECURSIVE Repetition(_)
Repetition(n) == IF n <= 0 THEN "" ELSE "string" \o Repetition(n - 6)

\* C21: for a string schema without known format the call returns (the
\* doubling ends for every minLength) a prefix of the repetition of
\* "string"; it is at least minLength long when maxLength is unset or not
\* below minLength, and never longer than maxLength.
C21_StringLengthRules ==
    \A r \in ret :
        stringFormatExample(args.Format) = "" =>
            /\ ~r.fatal
            /\ r.s = SubSeq(Repetition(Len(r.s)), 1, Len(r.s))
            /\ (args.MaxLength.nil \/ args.MaxLength.v >= args.MinLength)
                  => Len(r.s) >= args.MinLength
            /\ ~args.MaxLength.nil => Len(r.s) <= args.MaxLength.v

(***************************************************************************)
(* apisprout.go: addLocalServers (SpecLocal).                              *)
(***************************************************************************)
\* The parts server URLs are written with; a server is its URL (the
\* description and the variables are copied as they are, 1129-1130).
URLParts ==
    {[scheme |-> "https", host |-> "api.example.com", port |-> "", path |-> "/v1"],
     [scheme |-> "https", host |-> "api.example.com", port |-> "", path |-> ""],
     [scheme |-> "http", host |-> "api.example.com", port |-> "8000", path |-> "/v1"],
     [scheme |-> "http", host |-> "localhost", port |-> "8000", path |-> "/v1"],
     [scheme |-> "http", host |-> "localhost", port |-> "", path |-> "/v1"],
     [scheme |-> "https", host |-> "localhost", port |-> "9000", path |-> ""],
     [scheme |-> "http", host |-> "localhost", port |-> "9000", path |-> "/v1"],
     [scheme |-> "", host |-> "", port |-> "", path |-> "/v1"]}

\* The URL as the document writes it.
RawURL(p) ==
    (IF p.scheme # "" THEN p.scheme \o ":" ELSE "")
    \o (IF p.host # "" THEN "//" \o p.host ELSE "")
    \o (IF p.port # "" THEN ":" \o p.port ELSE "")
    \o p.path

\* A URL without the scheme that its colon announces.
BadURL == "://api.example.com"

ServerURLs == {RawURL(p) : p \in URLParts} \cup {BadURL}

\* declared servers
MaxServers == 3

ServerLists == UNION {[1..n -> ServerURLs] : n \in 0..MaxServers}

Ports == {8000, 9000}

\* net/url getScheme: the position of the colon that ends the scheme, 0 when
\* rawurl has no scheme; a colon at position 1 is the error "missing protocol
\* scheme".  The schemes here are written in small letters.
RECURSIVE getScheme(_, _)
getScheme(rawurl, i) ==
    IF i > Len(rawurl) THEN 0
    ELSE IF SubSeq(rawurl, i, i) = ":" THEN i
    ELSE IF SubSeq(rawurl, i, i) \in {"h", "t", "p", "s"} THEN getScheme(rawurl, i + 1)
    ELSE 0

\* url.Parse: Scheme, Host (with the port) and Path of rawurl.
Parse(rawurl) ==
    LET colon == getScheme(rawurl, 1)
        rest == SubSeq(rawurl, colon + 1, Len(rawurl))
        slash == Index(rest, "/", 3)
        authEnd == IF slash = 0 THEN Len(rest) ELSE slash - 1
    IN IF colon = 1 THEN [err |-> "missing protocol scheme", Scheme |-> "", Host |-> "", Path |-> ""]
       ELSE IF OccursAt(rest, "//", 1)
       THEN [err |-> Nil, Scheme |-> SubSeq(rawurl, 1, colon - 1),
             Host |-> SubSeq(rest, 3, authEnd), Path |-> SubSeq(rest, authEnd + 1, Len(rest))]
       ELSE [err |-> Nil, Scheme |-> SubSeq(rawurl, 1, colon - 1), Host |-> "", Path |-> rest]

\* URL.Hostname: the host without its port.
Hostname(u) ==
    LET colon == Index(u.Host, ":", 1)
    IN IF colon = 0 THEN u.Host ELSE SubSeq(u.Host, 1, colon - 1)

\* URL.String
URLString(u) ==
    (IF u.Scheme # "" THEN u.Scheme \o ":" ELSE "")
    \o (IF (u.Scheme # "" \/ u.Host # "") /\ (u.Host # "" \/ u.Path # "") THEN "//" ELSE "")
    \o u.Host
    \o (IF u.Path # "" /\ u.Host # "" /\ SubSeq(u.Path, 1, 1) # "/" THEN "/" ELSE "")
    \o u.Path

\* fmt.Sprintf("%d", n) for n >= 0.
RECURSIVE Itoa(_)
Itoa(n) ==
    (IF n >= 10 THEN Itoa(n \div 10) ELSE "")
    \o <<"0", "1", "2", "3", "4", "5", "6", "7", "8", "9">>[(n % 10) + 1]

\* 1121-1123: the URL with scheme and host replaced.
LocalURL(u, port) ==
    URLString([u EXCEPT !.Scheme = "http", !.Host = "localhost:" \o Itoa(port)])

\* A loop that appends a local server without looking into seen.
RECURSIVE LocalServersUnseen(_, _, _, _, _)
LocalServersUnseen(servers, i, seen, lservers, port) ==
    IF i > Len(servers) THEN [err |-> Nil, lservers |-> lservers]
    ELSE LET u == Parse(servers[i])
         IN IF u.err # Nil THEN [err |-> u.err, lservers |-> lservers]
            ELSE IF Hostname(u) # "localhost"
            THEN LocalServersUnseen(servers, i + 1, seen, Append(lservers, LocalURL(u, port)), port)
            ELSE LocalServersUnseen(servers, i + 1, seen, lservers, port)

\* 1115-1136: the loop over swagger.Servers, from server i on.
RECURSIVE LocalServers(_, _, _, _, _)
LocalServers(servers, i, seen, lservers, port) ==
    IF i > Len(servers) THEN [err |-> Nil, lservers |-> lservers]
    ELSE LET u == Parse(servers[i])
             ls == LocalURL(u, port)
         IN IF u.err # Nil THEN [err |-> u.err, lservers |-> lservers]
            ELSE IF Hostname(u) # "localhost" /\ ls \notin seen
            THEN LocalServers(servers, i + 1, seen \cup {ls}, Append(lservers, ls), port)
            ELSE LocalServers(servers, i + 1, seen, lservers, port)

\* addLocalServers: the error returned and swagger.Servers after the call.
addLocalServers(servers, port) ==
    LET seen == {servers[i] : i \in 1..Len(servers)}
        loop == LocalServers(servers, 1, seen, <<>>, port)
    IN IF loop.err # Nil THEN [err |-> loop.err, Servers |-> servers]
       ELSE [err |-> Nil, Servers |-> servers \o loop.lservers]

\* addLocalServers(swagger) is called.
AddLocalServersCall ==
    /\ ret = {}
    /\ ret' = {addLocalServers(args.Servers, args.port)}
    /\ UNCHANGED <<args, op, reqIn, resp, hVars, exVars, srvVars>>

InitLocal ==
    /\ args \in [Servers : ServerLists, port : Ports]
    /\ ret = {}
    /\ op = <<>> /\ reqIn = <<>> /\ resp = {}
    /\ ExampleIdle /\ ServerIdle /\ HandlerIdle

NextLocal == AddLocalServersCall

SpecLocal == InitLocal /\ [][NextLocal]_vars

\* ---- claims about addLocalServers ----

\* The parts a declared URL was written with.
PartsOf(url) == CHOOSE p \in URLParts : RawURL(p) = url

\* http://localhost:<port> followed by the path of each declared server
\* whose host is not localhost.
WantedLocal(declared, port) ==
    {"http://localhost:" \o Itoa(port) \o PartsOf(declared[i]).path :
        i \in {j \in 1..Len(declared) : PartsOf(declared[j]).host # "localhost"}}

\* C27: addLocalServers keeps the declared servers as the prefix of the
\* list and appends the local URL of every declared server whose host is
\* not localhost, each once and none that the list holds already; when a
\* declared URL cannot be parsed it returns an error and the list is as it
\* was.
C27_LocalServersAppended ==
    \A r \in ret :
        LET declared == args.Servers
            added == SubSeq(r.Servers, Len(declared) + 1, Len(r.Servers))
        IN IF \E i \in 1..Len(declared) : declared[i] = BadURL
           THEN r.err # Nil /\ r.Servers = declared
           ELSE /\ r.err = Nil
                /\ Len(r.Servers) >= Len(declared)
                /\ SubSeq(r.Servers, 1, Len(declared)) = declared
                /\ {added[j] : j \in 1..Len(added)}
                     = WantedLocal(declared, args.port)
                         \ {declared[i] : i \in 1..Len(declared)}
                /\ \A j, k \in 1..Len(added) : j # k => added[j] # added[k]

\* C27 witness: two servers with the same path and a host that is not
\* localhost, and a localhost server on another port, were declared; the
\* local URL was appended once.
C27_Witness ==
    /\ args.port = 8000
    /\ args.Servers = <<"https://api.example.com/v1", "/v1", "http://localhost:9000/v1">>
    /\ \E r \in ret :
          r.err = Nil /\ r.Servers = args.Servers \o <<"http://localhost:8000/v1">>

====
